---------------------------- MODULE Spec2Model ----------------------------
(***************************************************************************)
(* A model of the startup e-mail enricher: the bounded site crawl          *)
(* (scraper/scrape.py), the rolling-window rate limiter (scraper/utils.py),*)
(* the domain resolver (scraper/discover.py), the confidence scorer        *)
(* (scraper/validate.py) and the per-company pipeline (main.py).           *)
(*                                                                         *)
(* Strings the code takes apart are modelled by their parts: a host is the *)
(* sequence of its labels, an e-mail address a record of its local-part    *)
(* segments and its host, a URL a record of host and path.                 *)
(***************************************************************************)
EXTENDS Integers, Sequences, FiniteSets, TLC

VARIABLES
    \* ---- crawl_site_for_emails (scraper/scrape.py) ----
    domain,         \* the crawl's target registrable domain (labels)
    settings,       \* config.Settings: the fields the model reads
    cpc,            \* position in crawl_site_for_emails
    txt,            \* robots.txt text: "unbound" | "None" | "text"
    robots,         \* the parsed policy: the set of disallowed paths
    seen,           \* Set[str] of URLs
    q,              \* deque of (url, depth), with history fields
    pages_visited,
    crawl_emails,   \* the crawl's `emails` set
    crawl_notes,    \* the crawl's `notes` list
    crawl_ret,      \* the returned (emails, notes)
    fetched,        \* history: every page fetch request issued, in order
    site,           \* input: what the crawled site can answer
    \* ---- RateLimiter (scraper/utils.py) and its callers ----
    now,            \* time.monotonic(), in hundredths of a second
    per_minute,     \* RateLimiter.per_minute
    timestamps,     \* RateLimiter.timestamps
    rpc,            \* per caller: "idle" | "sleeping" (inside acquire)
    wake,           \* per caller: when its asyncio.sleep ends
    completions,    \* history: the time of every acquire() completion
    \* ---- an adapter's requests behind its RateLimiter ----
    apc,            \* per caller: "none" | "ready" | "backoff"
    tries,          \* per caller: attempts made for its request so far
    retry_at,       \* per caller: when its backoff ends
    sent,           \* history: the time of every HTTP request sent
    \* ---- process_company (main.py) and assess_confidence ----
    ppc,                  \* position in process_company
    row,                  \* input: the company record
    env,                  \* input: which API keys os.getenv finds
    discovery_method,
    notes,
    emails_by_source,     \* Dict[str, str], in insertion order
    hunter_verification,  \* Dict[str, Any]: e-mail -> verdict
    apollo_results,
    emails,               \* the filtered, deduplicated list
    confidence,
    method,
    result,               \* the returned ResultRow, <<>> before the return
    to_verify,            \* hunter_verify_bulk's `emails` argument
    out,                  \* hunter_verify_bulk's `out`
    attempt,              \* attempt number of the AsyncRetrying in progress
    calls,                \* history: network calls and acquire()s, in order
    failures,             \* history: adapter attempts that raised
    li_resp,              \* history: what the LinkedIn fetch returned
    serp_resp,            \* history: what the search API returned
    \* ---- main_async (main.py) ----
    bpc,                  \* position in main_async
    concurrency,          \* settings.concurrency
    save_every,           \* settings.save_every
    wpc,                  \* each worker task's position
    sem,                  \* the semaphore's value
    results,              \* the list `results`: the companies whose row it holds
    writes,               \* history: the calls of write_outputs
    \* ---- a pure function called on its own ----
    fpc,                  \* "idle", the function to call, or "returned"
    fn_html,              \* extract_emails_from_html's text
    fn_domain,            \* extract_emails_from_html's domain
    fn_url,               \* normalize_domain's argument
    fn_df,                \* merge_checkpoint's input table
    fn_chk,               \* merge_checkpoint's checkpoint table
    fn_ret                \* the value returned

crawlVars == <<domain, settings, cpc, txt, robots, seen, q, pages_visited,
               crawl_emails, crawl_notes, crawl_ret, fetched, site>>

\* the requests the callers of acquire() go on to make
apiVars == <<apc, tries, retry_at, sent>>

rlVars == <<now, per_minute, timestamps, rpc, wake, completions, apiVars>>

scoreVars == <<emails_by_source, hunter_verification, emails, confidence, method>>

ddVars == <<row, env, discovery_method, li_resp, serp_resp>>

adapterVars == <<apollo_results, to_verify, out, attempt>>

pcVars == <<ppc, ddVars, notes, scoreVars, adapterVars, result, calls, failures>>

\* the crawl's variables but `domain`, which process_company sets
crawlRest == <<settings, cpc, txt, robots, seen, q, pages_visited,
               crawl_emails, crawl_notes, crawl_ret, fetched, site>>

batchVars == <<bpc, concurrency, save_every, wpc, sem, results, writes>>

\* the arguments of the function called
fnArgs == <<fn_html, fn_domain, fn_url, fn_df, fn_chk>>

fnVars == <<fpc, fnArgs, fn_ret>>

vars == <<crawlVars, rlVars, pcVars, batchVars, fnVars>>

nonCrawlVars == <<rlVars, pcVars, batchVars, fnVars>>
nonRlVars == <<crawlVars, pcVars, batchVars, fnVars>>

----------------------------------------------------------------------------
(* Bounds of the model. *)

\* scrape.py seeds one URL per entry of KEYWORDS (nine); the model seeds
\* the first NumSeedKeywords of them, in any order.
NumSeedKeywords == 2
\* settings.max_pages_per_site ranges over 1..MaxPagesBound
MaxPagesBound == 2
\* settings.max_depth ranges over 0..MaxDepthBound
MaxDepthBound == 1
\* assess_confidence is given lists of at most MaxEmails addresses
MaxEmails == 2
\* RateLimiter: concurrent callers, budgets 1..MaxPerMinute, at most
\* MaxAcquires acquire() calls, the clock runs to MaxTime in steps of
\* TickStep (hundredths of a second) or to the next wake-up.
NumCallers == 2
MaxPerMinute == 2
MaxAcquires == 4
MaxTime == 12010
TickStep == 3000
\* HTTP requests sent to one API in a run
MaxSent == 3
\* merge_checkpoint: rows of the input table and of the checkpoint table
MaxRows == 2
\* adapter requests that raise, per company
MaxFailures == 3
\* the batch: records, and the largest concurrency and save_every
NumCompanies == 3
MaxConcurrency == 2
MaxSaveEvery == 2

----------------------------------------------------------------------------
(* Strings: lower-casing is a table over the strings the model uses. *)

lower(s) ==
    CASE s = "Info" -> "info"
      [] s = "PNG" -> "png"
      [] s = "Example" -> "example"
      [] s = "Sub" -> "sub"
      [] s = "/Contact" -> "/contact"
      [] OTHER -> s

LowerSeq(ss) == [i \in DOMAIN ss |-> lower(ss[i])]

\* s.strip(), a table over the strings the model uses
strip(s) ==
    CASE s = "com " -> "com"
      [] s = "Acme " -> "Acme"
      [] OTHER -> s

----------------------------------------------------------------------------
(* tldextract: the public suffix is the longest known suffix of the host's *)
(* labels, the domain the label before it.                                 *)

PublicSuffixes == {<<"com">>, <<"ai">>, <<"uk">>, <<"co", "uk">>}

Tail2(h) == SubSeq(h, Len(h) - 1, Len(h))
Tail1(h) == SubSeq(h, Len(h), Len(h))

\* A suffix list with one-label suffixes only.
SuffixLen_OneLabel(h) ==
    IF Len(h) >= 1 /\ Tail1(h) \in PublicSuffixes THEN 1 ELSE 0

\* Number of trailing labels that form the public suffix (0: none).
SuffixLen(h) ==
    IF Len(h) >= 2 /\ Tail2(h) \in PublicSuffixes THEN 2
    ELSE IF Len(h) >= 1 /\ Tail1(h) \in PublicSuffixes THEN 1
    ELSE 0

\* tldextract.extract(host): [domain, suffix], "" / <<>> when absent.
tldextract(h) ==
    LET n == SuffixLen(h)
    IN  [domain |-> IF Len(h) > n THEN h[Len(h) - n] ELSE "",
         suffix |-> SubSeq(h, Len(h) - n + 1, Len(h))]

\* same_domain that takes every URL as on-domain.
same_domain_Any(dom, url) == TRUE

\* same_domain(domain, url): registrable domain of the URL's host (the host
\* itself when it has no domain or no suffix) equals the target, both
\* lower-cased.  urlparse(...).hostname is lower-cased already.
same_domain(dom, url) ==
    LET host == LowerSeq(url.host)
        ext == tldextract(host)
        reg == IF ext.domain # "" /\ ext.suffix # <<>>
               THEN <<ext.domain>> \o ext.suffix
               ELSE host
    IN  LowerSeq(reg) = LowerSeq(dom)

----------------------------------------------------------------------------
(* URLs of the crawl. *)

KEYWORDS == {"contact", "about", "team", "people", "career", "careers",
             "join", "recruit", "jobs"}

\* The seeded keywords, NumSeedKeywords of KEYWORDS.
KeywordList == <<"contact", "about", "team", "people", "career", "careers",
                 "join", "recruit", "jobs">>
SeedKeywords == {KeywordList[i] : i \in 1..NumSeedKeywords}

\* urljoin(base_url, "/" + k)
KeywordPath(k) ==
    CASE k = "contact" -> "/contact"
      [] k = "about" -> "/about"
      [] k = "team" -> "/team"
      [] k = "people" -> "/people"
      [] k = "career" -> "/career"
      [] k = "careers" -> "/careers"
      [] k = "join" -> "/join"
      [] k = "recruit" -> "/recruit"
      [] k = "jobs" -> "/jobs"

\* The keywords that are substrings of a (lower-cased) path.
PathKeywords(p) ==
    CASE p = "/contact" -> {"contact"}
      [] p = "/about" -> {"about"}
      [] p = "/team" -> {"team"}
      [] p = "/people" -> {"people"}
      [] p = "/career" -> {"career"}
      [] p = "/careers" -> {"career", "careers"}
      [] p = "/join" -> {"join"}
      [] p = "/recruit" -> {"recruit"}
      [] p = "/jobs" -> {"jobs"}
      [] p = "/team/jobs" -> {"team", "jobs"}
      [] OTHER -> {}

\* any(k in path for k in KEYWORDS) or path in ("/", "")
CandidatePath(path) ==
    LET p == lower(path)
    IN  (PathKeywords(p) \cap KEYWORDS # {}) \/ p \in {"/", ""}

Url(h, p) == [host |-> h, path |-> p]

base_url(dom) == Url(dom, "/")

ExampleCom == <<"example", "com">>
WwwExampleCom == <<"www", "example", "com">>
OtherSiteCom == <<"othersite", "com">>


----------------------------------------------------------------------------
(* E-mail addresses: [local: dot-separated segments, dom: host labels]. *)

Email(l, d) == [local |-> l, dom |-> d]

InfoUpper == Email(<<"Info">>, ExampleCom)
BobOther == Email(<<"bob">>, OtherSiteCom)
InfoEx == Email(<<"info">>, ExampleCom)
JaneDoe == Email(<<"jane", "doe">>, ExampleCom)
JaneDot == Email(<<"jane", "">>, ExampleCom)
Throwaway == Email(<<"x">>, <<"mailinator", "com">>)
Logo2x == Email(<<"logo">>, <<"2x", "png">>)
LogoUpper == Email(<<"logo">>, <<"2x", "PNG">>)
Hello == Email(<<"hello">>, ExampleCom)
Support == Email(<<"support">>, ExampleCom)
\* occurrences in a text: "mailto:hello@example.com" and
\* "support@example.com."
MailtoHello == Email(<<"mailto:hello">>, ExampleCom)
SupportDot == Email(<<"support">>, <<"example", "com.">>)

\* The addresses of the model in Python's string order (code points:
\* upper case sorts before lower case).
EmailOrder ==
    <<InfoUpper, BobOther, Hello, InfoEx, JaneDot, JaneDoe, LogoUpper, Logo2x,
      MailtoHello, Support, SupportDot, Throwaway>>

Range(f) == {f[i] : i \in DOMAIN f}

EmailLower(e) == Email(LowerSeq(e.local), LowerSeq(e.dom))

\* sorted(S) for a set of addresses
sorted(S) == SelectSeq(EmailOrder, LAMBDA e : e \in S)

IMAGE_EXT == {"png", "jpg", "jpeg", "gif", "svg", "webp", "bmp"}

\* EMAIL_RE on one occurrence in the text: the match starts after the last
\* character the local part's class does not hold (":" among them) and
\* ends with a letter or digit of the last label.
ReString(s) ==
    CASE s = "mailto:hello" -> "hello"
      [] s = "com." -> "com"
      [] OTHER -> s

ReMatch(o) ==
    Email([i \in DOMAIN o.local |-> ReString(o.local[i])],
          [i \in DOMAIN o.dom |-> ReString(o.dom[i])])

\* s.strip(".,;:") at the two ends of the string
StripPunctString(s) ==
    CASE s = "com." -> "com"
      [] OTHER -> s

StripPunct(e) ==
    Email([i \in DOMAIN e.local |->
              IF i = 1 THEN StripPunctString(e.local[i]) ELSE e.local[i]],
          [i \in DOMAIN e.dom |->
              IF i = Len(e.dom) THEN StripPunctString(e.dom[i]) ELSE e.dom[i]])

\* Line 30: the set of the matches, stripped
Candidates(text) == {StripPunct(ReMatch(o)) : o \in text}

\* The image test without the lower-casing.
EndsWithImageExt_CaseSensitive(e) == e.dom[Len(e.dom)] \in IMAGE_EXT

\* Line 34: e.lower().endswith(IMAGE_EXT)
EndsWithImageExt(e) == lower(e.dom[Len(e.dom)]) \in IMAGE_EXT

\* s.replace("mailto:", "")
ReplaceMailto(s) ==
    CASE s = "mailto:hello" -> "hello"
      [] OTHER -> s

\* Line 37: e.replace("mailto:", "").strip()
Unmailto(e) ==
    Email([i \in DOMAIN e.local |-> strip(ReplaceMailto(e.local[i]))],
          [i \in DOMAIN e.dom |-> strip(e.dom[i])])

\* Lines 31-38
Filtered(text) ==
    {Unmailto(e) : e \in {c \in Candidates(text) : ~EndsWithImageExt(c)}}

\* Line 44: e.lower().endswith("@" + domain.lower())
OnDomain(filtered, dom) ==
    {e \in filtered : LowerSeq(e.dom) = LowerSeq(dom)}

\* A bias that keeps the on-domain addresses only.
OffDomain_Dropped(filtered, on) == {}

\* Line 45: e.lower() not in {x.lower() for x in on}
OffDomain(filtered, on) ==
    {e \in filtered : EmailLower(e) \notin {EmailLower(x) : x \in on}}

\* extract_emails_from_html(html, domain): html.text is the set of the
\* e-mail-shaped occurrences in the text; image file names are dropped;
\* without a domain the result is sorted, with one the on-domain addresses
\* come first, each half sorted.
extract_emails_from_html(html, dom) ==
    LET filtered == Filtered(html.text)
        on == OnDomain(filtered, dom)
        off == OffDomain(filtered, on)
    IN  IF dom = <<>> THEN sorted(filtered)
        ELSE sorted(on) \o sorted(off)

----------------------------------------------------------------------------
(* The site: what a page fetch can return. *)

Href(u) == [skip |-> FALSE, full |-> u]
\* an href starting with "#" or "mailto:"
SkippedHref == [skip |-> TRUE, full |-> Url(ExampleCom, "/")]

Page(h, t) == [hrefs |-> h, text |-> t, parse_ok |-> TRUE]

PageBodies ==
    { Page(<<>>, {InfoEx}),
      Page(<<Href(Url(ExampleCom, "/team"))>>, {JaneDoe, Logo2x}),
      Page(<<Href(Url(WwwExampleCom, "/team/jobs")),
             Href(Url(WwwExampleCom, "/team/jobs"))>>, {InfoUpper, InfoEx}),
      Page(<<Href(Url(OtherSiteCom, "/contact")),
             Href(Url(ExampleCom, "/blog")),
             Href(Url(ExampleCom, "/Contact"))>>, {BobOther}),
      Page(<<SkippedHref, Href(Url(ExampleCom, "/")),
             Href(Url(ExampleCom, ""))>>, {}),
      [hrefs |-> <<Href(Url(ExampleCom, "/people"))>>, text |-> {Throwaway},
       parse_ok |-> FALSE] }

\* robots.txt policies: the sets of paths can_fetch refuses for the
\* configured user agent.
RobotsPolicies ==
    { {}, {"/"}, {"/contact"}, {"/about", "/team", "/team/jobs"},
      {"/", "/contact", "/about"} }

\* robots.can_fetch(settings.user_agent, url)
can_fetch(policy, url) == url.path \notin policy

----------------------------------------------------------------------------
(* crawl_site_for_emails *)

Note(k, u) == [kind |-> k, url |-> u]

\* A queue entry (url, depth).  Two history fields ride along: hops, the
\* number of links followed from a seed to reach the URL, and pdepth, the
\* depth at which the referring page was dequeued (-1 for a seed).
QEntry(u, d, h, pd) == [url |-> u, depth |-> d, hops |-> h, pdepth |-> pd]

\* The depth enqueue_candidates gives a link found on a page of depth d.
EnqueueDepth(d) == 0

\* enqueue_candidates(urls, q): `seenSet` is `seen` as it is during the
\* call (the caller updates it afterwards); d and h are the referring
\* page's depth and hop count.
RECURSIVE enqueue_candidates(_, _, _, _, _, _)
enqueue_candidates(urls, q0, seenSet, dom, d, h) ==
    IF urls = <<>> THEN q0
    ELSE LET u == Head(urls)
             keep == /\ u \notin seenSet
                     /\ same_domain(dom, u)
                     /\ CandidatePath(u.path)
         IN  enqueue_candidates(
                 Tail(urls),
                 IF keep THEN Append(q0, QEntry(u, EnqueueDepth(d), h + 1, d))
                 ELSE q0,
                 seenSet, dom, d, h)

\* Orders in which Python may iterate the KEYWORDS set.
SeedOrders ==
    {s \in [1..NumSeedKeywords -> SeedKeywords] :
        \A i, j \in 1..NumSeedKeywords : i # j => s[i] # s[j]}

SeedUrls(dom, order) ==
    <<base_url(dom)>> \o [i \in 1..NumSeedKeywords |->
                              Url(dom, KeywordPath(order[i]))]

\* enqueue_candidates([base_url] + [...], q) on the empty queue and the
\* empty seen set: the seeds count as found at hop -1.
SeedQueue(dom, order) ==
    enqueue_candidates(SeedUrls(dom, order), <<>>, {}, dom, -1, -1)

\* `links` of a fetched page: urljoin(url, href) for every href kept.
PageLinks(html) ==
    LET kept == SelectSeq(html.hrefs, LAMBDA a : ~a.skip)
    IN  [i \in DOMAIN kept |-> kept[i].full]

\* config.Settings: the crawl budgets and the adapter toggles.
Settings(pages, depth, hunter, apollo, serpapi) ==
    [max_pages_per_site |-> pages, max_depth |-> depth,
     USE_HUNTER |-> hunter, USE_APOLLO |-> apollo, USE_SERPAPI |-> serpapi]

\* The defaults of config.py.
DEFAULT_MAX_PAGES == 15
DEFAULT_MAX_DEPTH == 2
DefaultSettings ==
    Settings(DEFAULT_MAX_PAGES, DEFAULT_MAX_DEPTH, FALSE, FALSE, FALSE)

SettingsChoices ==
    {Settings(p, d, FALSE, FALSE, FALSE) :
        p \in 1..MaxPagesBound, d \in 0..MaxDepthBound}

NoReturn == [emails |-> <<>>, notes |-> <<>>]

\* A site: the outcomes its robots.txt request can have ("error": the
\* request raises, "None": 404, "text": a policy of `policies`), the bodies
\* its pages can return, whether a page fetch can fail, and the order in
\* which this process iterates KEYWORDS.
Site(r, p, b, f, o) ==
    [robots |-> r, policies |-> p, bodies |-> b, may_fail |-> f, order |-> o]

AnySite(o) == Site({"error", "None", "text"}, RobotsPolicies, PageBodies, TRUE, o)

\* State at the call of crawl_site_for_emails(domain, settings, http_client).
CrawlEntry(dom) ==
    /\ domain = dom
    /\ cpc = "robots"
    /\ txt = "unbound"
    /\ robots = {}
    /\ seen = {}
    /\ q = <<>>
    /\ pages_visited = 0
    /\ crawl_emails = {}
    /\ crawl_notes = <<>>
    /\ crawl_ret = NoReturn
    /\ fetched = <<>>

\* No crawl is running.
CrawlIdle ==
    /\ settings = DefaultSettings
    /\ site = Site({}, {}, {}, FALSE, KeywordList)
    /\ domain = <<>>
    /\ cpc = "idle"
    /\ txt = "unbound"
    /\ robots = {}
    /\ seen = {}
    /\ q = <<>>
    /\ pages_visited = 0
    /\ crawl_emails = {}
    /\ crawl_notes = <<>>
    /\ crawl_ret = NoReturn
    /\ fetched = <<>>

\* RootDisallowed with the early return lost.
RootDisallowed_NoReturn(outcome, policy) == FALSE

\* Lines 39-41: robots.txt was fetched and refuses the site root.
RootDisallowed(outcome, policy) ==
    outcome = "text" /\ ~can_fetch(policy, base_url(domain))

\* Lines 36-68: fetch and parse robots.txt, return at once when the root is
\* disallowed, otherwise seed the queue.  `outcome` is what the robots.txt
\* request did: "error" (raised), "None" (404) or "text".
CrawlStart(outcome, policy, order) ==
    /\ cpc = "robots"
    /\ txt' = IF outcome = "error" THEN "unbound" ELSE outcome
    /\ robots' = IF outcome = "text" THEN policy ELSE {}
    /\ IF RootDisallowed(outcome, policy)
       THEN /\ crawl_notes' = <<Note("robots_disallow:root", base_url(domain))>>
            /\ crawl_ret' = [emails |-> <<>>, notes |-> crawl_notes']
            /\ cpc' = "done"
            /\ UNCHANGED <<q, seen>>
       ELSE /\ q' = SeedQueue(domain, order)
            /\ seen' = {e.url : e \in Range(q')}
            /\ cpc' = "loop"
            /\ UNCHANGED <<crawl_notes, crawl_ret>>
    /\ UNCHANGED <<domain, settings, site, pages_visited, crawl_emails, fetched>>
    /\ UNCHANGED nonCrawlVars

\* A loop that stops after one page whatever the settings say.
LoopCondition_OnePage ==
    q # <<>> /\ pages_visited < 1

\* while q and pages_visited < settings.max_pages_per_site
LoopCondition ==
    q # <<>> /\ pages_visited < settings.max_pages_per_site

\* RobotsDisallows asking robots.txt about the site root, not the URL.
RobotsDisallows_Root(url) ==
    txt = "text" /\ ~can_fetch(robots, base_url(domain))

\* Line 76: robots and txt is not None and not robots.can_fetch(...); with
\* txt unbound the test raises NameError, which the except swallows.
RobotsDisallows(url) ==
    txt = "text" /\ ~can_fetch(robots, url)

\* Lines 70-80: the dequeued entry is skipped without a fetch, for its depth
\* (no note) or for robots.txt (a robots_disallow note).
CrawlSkip ==
    /\ cpc = "loop" /\ LoopCondition
    /\ LET e == Head(q)
       IN  /\ e.depth > settings.max_depth \/ RobotsDisallows(e.url)
           /\ q' = Tail(q)
           /\ crawl_notes' =
                 IF e.depth > settings.max_depth THEN crawl_notes
                 ELSE Append(crawl_notes, Note("robots_disallow", e.url))
    /\ UNCHANGED <<domain, settings, site, cpc, txt, robots, seen,
                   pages_visited, crawl_emails, crawl_ret, fetched>>
    /\ UNCHANGED nonCrawlVars

Fetch(e, ok) == [url |-> e.url, depth |-> e.depth, hops |-> e.hops, ok |-> ok]

\* A fetch_error note that names the site root whatever URL failed.
FetchErrorNote_Root(url) == Note("fetch_error", base_url(domain))

\* Line 85: notes.append(f"fetch_error:{url}:{e}")
FetchErrorNote(url) == Note("fetch_error", url)

\* Lines 82-86: fetch_text raises.
CrawlFetchError ==
    /\ cpc = "loop" /\ LoopCondition
    /\ site.may_fail
    /\ LET e == Head(q)
       IN  /\ ~(e.depth > settings.max_depth) /\ ~RobotsDisallows(e.url)
           /\ q' = Tail(q)
           /\ fetched' = Append(fetched, Fetch(e, FALSE))
           /\ crawl_notes' = Append(crawl_notes, FetchErrorNote(e.url))
    /\ UNCHANGED <<domain, settings, site, cpc, txt, robots, seen,
                   pages_visited, crawl_emails, crawl_ret>>
    /\ UNCHANGED nonCrawlVars

\* The count the page budget is charged after a successful fetch.
CountPage(n) == n + 1

\* Lines 82-106: the page is fetched, its e-mails extracted and its links
\* enqueued; a failure parsing the links leaves a note.
CrawlFetchOk(html) ==
    /\ cpc = "loop" /\ LoopCondition
    /\ LET e == Head(q)
           links == PageLinks(html)
       IN  /\ ~(e.depth > settings.max_depth) /\ ~RobotsDisallows(e.url)
           /\ fetched' = Append(fetched, Fetch(e, TRUE))
           /\ pages_visited' = CountPage(pages_visited)
           /\ crawl_emails' =
                 crawl_emails \cup Range(extract_emails_from_html(html, domain))
           /\ IF html.parse_ok
              THEN /\ q' = enqueue_candidates(links, Tail(q), seen, domain,
                                              e.depth, e.hops)
                   /\ seen' = seen \cup Range(links)
                   /\ UNCHANGED crawl_notes
              ELSE /\ q' = Tail(q)
                   /\ crawl_notes' =
                         Append(crawl_notes, Note("parse_links_error", e.url))
                   /\ UNCHANGED seen
    /\ UNCHANGED <<domain, settings, site, cpc, txt, robots, crawl_ret>>
    /\ UNCHANGED nonCrawlVars

\* Line 108: return sorted(emails), notes
CrawlReturn ==
    /\ cpc = "loop" /\ ~LoopCondition
    /\ crawl_ret' = [emails |-> sorted(crawl_emails), notes |-> crawl_notes]
    /\ cpc' = "done"
    /\ UNCHANGED <<domain, settings, site, txt, robots, seen, q, pages_visited,
                   crawl_emails, crawl_notes, fetched>>
    /\ UNCHANGED nonCrawlVars

CrawlStep ==
    \/ \E outcome \in site.robots, policy \in site.policies :
          CrawlStart(outcome, policy, site.order)
    \/ CrawlSkip
    \/ CrawlFetchError
    \/ \E html \in site.bodies : CrawlFetchOk(html)
    \/ CrawlReturn

----------------------------------------------------------------------------
(* RateLimiter: N requests per rolling minute.  Times are in hundredths of *)
(* a second.                                                               *)

\* the 60 of acquire(): the window, in hundredths of a second
WINDOW == 6000
\* the 0.01 added to wait_for
MARGIN == 1

Callers == 1..NumCallers

\* RateLimiter(per_minute): self.per_minute = max(1, per_minute)
RateLimiterInit(n) ==
    /\ per_minute = IF n >= 1 THEN n ELSE 1
    /\ timestamps = <<>>
    /\ now = 0
    /\ rpc = [c \in Callers |-> "idle"]
    /\ wake = [c \in Callers |-> 0]
    /\ completions = <<>>
    /\ apc = [c \in Callers |-> "none"]
    /\ tries = [c \in Callers |-> 0]
    /\ retry_at = [c \in Callers |-> 0]
    /\ sent = <<>>

\* The limiter as it is in a run that never uses it.
RateLimiterIdle == RateLimiterInit(1)

\* while self.timestamps and now - self.timestamps[0] > 60: popleft()
RECURSIVE Purge(_, _)
Purge(ts, t) ==
    IF ts # <<>> /\ t - Head(ts) > WINDOW THEN Purge(Tail(ts), t) ELSE ts

\* Lines 101-109 without a wait: the window has room, the timestamp is
\* recorded and acquire() returns, all before any suspension.
AcquireNoWait(c) ==
    /\ rpc[c] = "idle"
    /\ Len(completions) + Cardinality({d \in Callers : rpc[d] = "sleeping"})
          < MaxAcquires
    /\ LET ts == Purge(timestamps, now)
       IN  /\ Len(ts) < per_minute
           /\ timestamps' = Append(ts, now)
           /\ completions' = Append(completions, now)
    /\ UNCHANGED <<now, per_minute, rpc, wake>>
    /\ UNCHANGED nonRlVars

\* Lines 101-107: the window is full; the caller computes wait_for from the
\* oldest timestamp and suspends in asyncio.sleep.
AcquireSleep(c) ==
    /\ rpc[c] = "idle"
    /\ Len(completions) + Cardinality({d \in Callers : rpc[d] = "sleeping"})
          < MaxAcquires
    /\ LET ts == Purge(timestamps, now)
       IN  /\ Len(ts) >= per_minute
           /\ timestamps' = ts
           /\ wake' = [wake EXCEPT ![c] = now + (WINDOW - (now - Head(ts)) + MARGIN)]
    /\ rpc' = [rpc EXCEPT ![c] = "sleeping"]
    /\ UNCHANGED <<now, per_minute, completions>>
    /\ UNCHANGED nonRlVars

\* Line 108 after the sleep: the timestamp is recorded without looking at
\* the window again.
AcquireWake(c) ==
    /\ rpc[c] = "sleeping"
    /\ now >= wake[c]
    /\ timestamps' = Append(timestamps, now)
    /\ completions' = Append(completions, now)
    /\ rpc' = [rpc EXCEPT ![c] = "idle"]
    /\ UNCHANGED <<now, per_minute, wake>>
    /\ UNCHANGED nonRlVars

\* Time passes: by TickStep, or to the earliest pending wake-up.
Tick ==
    /\ \E t \in {now + TickStep} \cup
                {wake[c] : c \in {d \in Callers : rpc[d] = "sleeping"}} :
          /\ t > now
          /\ t <= MaxTime
          /\ now' = t
    /\ UNCHANGED <<per_minute, timestamps, rpc, wake, completions>>
    /\ UNCHANGED nonRlVars

----------------------------------------------------------------------------
(* An adapter's request behind the limiter of its API: one acquire(), then *)
(* the attempts of AsyncRetrying(stop_after_attempt(3),                    *)
(* wait_exponential_jitter(1, 3)).  A request is timed at its start.       *)

\* A retry policy that does not give up within a run.
MAX_ATTEMPTS_Unbounded == MaxFailures + 1

\* stop_after_attempt(3)
MAX_ATTEMPTS == 3

\* wait_exponential_jitter(1, 3): initial and max, in hundredths of a second
BACKOFF_INITIAL == 100
BACKOFF_MAX == 300
\* the jitter is uniform in [0, 1] seconds: its two ends
Jitters == {0, 100}

\* The wait after the n-th attempt has raised.
Backoff(n, jitter) ==
    LET w == BACKOFF_INITIAL * (2 ^ (n - 1)) + jitter
    IN  IF w < BACKOFF_MAX THEN w ELSE BACKOFF_MAX

\* hunter_integration.py line 29 (58; apollo_integration.py line 38):
\* await rate_limits[...].acquire(), which returns at once ...
RequestAcquireNoWait(c) ==
    /\ apc[c] = "none"
    /\ AcquireNoWait(c)
    /\ apc' = [apc EXCEPT ![c] = "ready"]
    /\ tries' = [tries EXCEPT ![c] = 0]
    /\ UNCHANGED <<retry_at, sent>>

\* ... or suspends the caller ...
RequestAcquireSleep(c) ==
    /\ apc[c] = "none"
    /\ AcquireSleep(c)
    /\ UNCHANGED apiVars

\* ... and returns after the sleep.
RequestAcquireWake(c) ==
    /\ AcquireWake(c)
    /\ apc' = [apc EXCEPT ![c] = "ready"]
    /\ tries' = [tries EXCEPT ![c] = 0]
    /\ UNCHANGED <<retry_at, sent>>

\* Lines 31-39: one attempt of the request.  It answers and the function
\* returns, or it raises: AsyncRetrying waits and tries again, without a
\* further acquire(), or gives up after the last attempt.
RequestAttempt(c, ok, jitter) ==
    /\ \/ apc[c] = "ready"
       \/ apc[c] = "backoff" /\ now >= retry_at[c]
    /\ Len(sent) < MaxSent
    /\ sent' = Append(sent, now)
    /\ IF ok \/ tries[c] + 1 >= MAX_ATTEMPTS
       THEN /\ apc' = [apc EXCEPT ![c] = "none"]
            /\ tries' = [tries EXCEPT ![c] = 0]
            /\ UNCHANGED retry_at
       ELSE /\ apc' = [apc EXCEPT ![c] = "backoff"]
            /\ tries' = [tries EXCEPT ![c] = tries[c] + 1]
            /\ retry_at' = [retry_at EXCEPT
                               ![c] = now + Backoff(tries[c] + 1, jitter)]
    /\ UNCHANGED <<now, per_minute, timestamps, rpc, wake, completions>>
    /\ UNCHANGED nonRlVars

\* Time passes to the end of a pending backoff.
BackoffTick ==
    /\ \E c \in Callers :
          /\ apc[c] = "backoff"
          /\ retry_at[c] > now
          /\ retry_at[c] <= MaxTime
          /\ now' = retry_at[c]
    /\ UNCHANGED <<per_minute, timestamps, rpc, wake, completions>>
    /\ UNCHANGED apiVars
    /\ UNCHANGED nonRlVars

----------------------------------------------------------------------------
(* assess_confidence (scraper/validate.py) *)

GENERIC_PREFIXES ==
    {"info", "hello", "contact", "hi", "support", "team", "careers", "jobs"}

Sources == {"page", "hunter", "apollo"}

\* A verdict of the verifier: the payload's "result" field, "" for an empty
\* payload ({}), which Python takes for false.
Verdict(r) == [result |-> r]
Verdicts == {Verdict("valid"), Verdict("risky"), Verdict("")}

\* An entry of the insertion-ordered dict emails_by_source.
Entry(e, src) == [email |-> e, source |-> src]

Keys(ebs) == [i \in DOMAIN ebs |-> ebs[i].email]

\* emails_by_source.get(e, default)
Get(ebs, e, default) ==
    IF \E i \in DOMAIN ebs : ebs[i].email = e
    THEN ebs[CHOOSE i \in DOMAIN ebs : ebs[i].email = e].source
    ELSE default

\* local = e.split("@", 1)[0].lower()
LocalLower(e) == LowerSeq(e.local)

\* "." in local and all(part for part in local.split("."))
Dotted(local) == Len(local) >= 2 /\ \A i \in DOMAIN local : local[i] # ""

\* local in GENERIC_PREFIXES: none of the prefixes holds a dot
Generic(local) == Len(local) = 1 /\ local[1] \in GENERIC_PREFIXES

\* hv and hv.get("result") == "valid", hv = hunter_verification.get(e)
ValidVerdict(hv, e) ==
    /\ e \in DOMAIN hv
    /\ hv[e].result # ""
    /\ hv[e].result = "valid"

\* The first loop (lines 51-54): the index of the first e-mail with a valid
\* verdict, 0 when the loop ends without a return.
RECURSIVE FirstValid(_, _, _)
FirstValid(es, hv, i) ==
    IF i > Len(es) THEN 0
    ELSE IF ValidVerdict(hv, es[i]) THEN i
    ELSE FirstValid(es, hv, i + 1)

\* lines 62-68, for one e-mail
MediumEvidence(ebs, e) ==
    /\ Get(ebs, e, "") = "page"
    /\ Dotted(LocalLower(e)) \/ ~Generic(LocalLower(e))

\* assess_confidence with rules 1 and 2 in the other order.
assess_confidence_ApolloFirst(es, hv, ebs) ==
    LET v == FirstValid(es, hv, 1)
    IN  IF \E i \in DOMAIN es : Get(ebs, es[i], "") = "apollo"
        THEN <<"high", "apollo">>
        ELSE IF v # 0 THEN <<"high", Get(ebs, es[v], "page")>>
        ELSE IF \E i \in DOMAIN es : MediumEvidence(ebs, es[i])
        THEN <<"medium", "page">>
        ELSE IF es # <<>> THEN <<"low", Get(ebs, es[1], "page")>>
        ELSE <<"low", "serp">>

\* assess_confidence(emails, hunter_verification, emails_by_source):
\* <<confidence, extraction_method>>
assess_confidence(es, hv, ebs) ==
    LET v == FirstValid(es, hv, 1)
    IN  IF v # 0 THEN <<"high", Get(ebs, es[v], "page")>>
        ELSE IF \E i \in DOMAIN es : Get(ebs, es[i], "") = "apollo"
        THEN <<"high", "apollo">>
        ELSE IF \E i \in DOMAIN es : MediumEvidence(ebs, es[i])
        THEN <<"medium", "page">>
        ELSE IF es # <<>> THEN <<"low", Get(ebs, es[1], "page")>>
        ELSE <<"low", "serp">>

----------------------------------------------------------------------------
(* process_company (main.py) and what it calls *)

\* A URL-or-domain string: scheme ("" when it has none), host labels, path.
UrlString(sc, h, p) == [scheme |-> sc, host |-> h, path |-> p]

EmptyString == UrlString("", <<>>, "")

\* urlparse(s) raises ValueError("Invalid IPv6 URL"): a bracket in the host
UrlparseRaises(str) == \E i \in DOMAIN str.host : str.host[i] \in {"[", "]"}

\* Python's None, for a domain
None == <<>>

\* normalize_domain(url_or_domain): the registrable domain, lower-cased,
\* None for the empty string, a string without a host, or a host without a
\* domain label or a public suffix.
normalize_domain(str) ==
    IF str = EmptyString THEN None
    ELSE IF UrlparseRaises(str) THEN None
    ELSE LET host == LowerSeq(str.host)
             ext == tldextract(host)
         IN  IF host = <<>> THEN None
             ELSE IF ext.domain = "" \/ ext.suffix = <<>> THEN None
             ELSE <<ext.domain>> \o ext.suffix

\* What a request returned: status "unasked" (never sent), "raise" (it
\* raised), "malformed" (an answer that is not of the expected shape) or
\* "ok", with the URL strings found in the answer.
Resp(st, links) == [status |-> st, links |-> links]
Unasked == Resp("unasked", <<>>)
Raised == Resp("raise", <<>>)

\* websites = [w for w in (normalize_domain(u) for u in candidates) if w];
\* websites[0], None when the list is empty
RECURSIVE FirstDomain(_)
FirstDomain(links) ==
    IF links = <<>> THEN None
    ELSE IF normalize_domain(Head(links)) # None
    THEN normalize_domain(Head(links))
    ELSE FirstDomain(Tail(links))

\* The API keys of the environment: present or not.
Env(h, a, sk) == [HUNTER_API_KEY |-> h, APOLLO_API_KEY |-> a, SERPAPI_KEY |-> sk]

Row(w, l) == [website |-> w, linkedin_url |-> l]

\* process_company's locals before its first statement has run.
CompanyLocals ==
    /\ discovery_method = ""
    /\ notes = <<>>
    /\ emails_by_source = <<>>
    /\ hunter_verification = <<>>
    /\ apollo_results = <<>>
    /\ emails = <<>>
    /\ confidence = ""
    /\ method = ""
    /\ result = <<>>
    /\ to_verify = <<>>
    /\ out = <<>>
    /\ attempt = 0
    /\ calls = <<>>
    /\ failures = <<>>
    /\ li_resp = Unasked
    /\ serp_resp = Unasked

\* No company is being processed.
CompanyIdle ==
    /\ ppc = "idle"
    /\ row = Row(EmptyString, EmptyString)
    /\ env = Env(FALSE, FALSE, FALSE)
    /\ CompanyLocals

\* The call assess_confidence(emails, hunter_verification, emails_by_source)
AssessConfidence ==
    /\ ppc = "assess"
    /\ LET r == assess_confidence(emails, hunter_verification, emails_by_source)
       IN  /\ confidence' = r[1]
           /\ method' = r[2]
    /\ ppc' = "assessed"
    /\ UNCHANGED <<emails_by_source, hunter_verification, emails>>
    /\ UNCHANGED <<ddVars, notes, adapterVars, result, calls, failures>>
    /\ UNCHANGED <<crawlVars, rlVars, batchVars, fnVars>>

----------------------------------------------------------------------------
(* filter_emails_basic and dedupe_keep_order (scraper/validate.py) *)

DISPOSABLE_DOMAINS ==
    {<<"mailinator", "com">>, <<"guerrillamail", "com">>,
     <<"10minutemail", "com">>, <<"tempmail", "com">>, <<"yopmail", "com">>}

\* An address with trailing white space, and a string without "@" (its
\* dom is empty).
BobSpace == Email(<<"bob">>, <<"othersite", "com ">>)
NoAt == Email(<<"n/a">>, <<>>)

\* e.strip(): the model's white space is at the end of the last label
StripEmail(e) ==
    Email(e.local, [i \in DOMAIN e.dom |-> strip(e.dom[i])])

\* filter_emails_basic(emails, domain): drops the strings without "@" and
\* those whose part after "@", lower-cased, is a disposable domain; strips
\* the others.  `domain` is not used.
filter_emails_basic(es, dom) ==
    LET kept == SelectSeq(es, LAMBDA e :
                    /\ e.dom # <<>>
                    /\ LowerSeq(e.dom) \notin DISPOSABLE_DOMAINS)
    IN  [i \in DOMAIN kept |-> StripEmail(kept[i])]

\* dedupe_keep_order(items): the first of each group of items with the
\* same lower-cased form, in order.
RECURSIVE DedupeFrom(_, _)
DedupeFrom(items, seenKeys) ==
    IF items = <<>> THEN <<>>
    ELSE IF EmailLower(Head(items)) \in seenKeys
    THEN DedupeFrom(Tail(items), seenKeys)
    ELSE <<Head(items)>> \o
         DedupeFrom(Tail(items), seenKeys \cup {EmailLower(Head(items))})

dedupe_keep_order(items) == DedupeFrom(items, {})

\* for e in es: emails_by_source[e] = emails_by_source.get(e, src)
RECURSIVE PutAll(_, _, _)
PutAll(ebs, es, src) ==
    IF es = <<>> THEN ebs
    ELSE PutAll(IF \E i \in DOMAIN ebs : ebs[i].email = Head(es)
                THEN ebs
                ELSE Append(ebs, Entry(Head(es), src)),
                Tail(es), src)

----------------------------------------------------------------------------
(* determine_domain_for_company (scraper/discover.py), called by           *)
(* process_company (main.py)                                               *)

NoUrl == Url(<<>>, "")

\* determine_domain_for_company without its first stage.
WebsiteYields_Never(website) == FALSE

\* Lines 31-33: if website: dom = normalize_domain(website); if dom:
WebsiteYields(website) ==
    website # EmptyString /\ normalize_domain(website) # None

\* The except clauses without the search stage's.
Caught_LinkedInOnly(stage) == stage = "linkedin"

\* The except clauses of determine_domain_for_company: both stages catch
\* Exception.
Caught(stage) == stage \in {"linkedin", "serpapi"}

\* hunter_domain_search without its test of the domain.
HunterSearchSkips_KeyOnly(dom) == ~env.HUNTER_API_KEY

\* Stage 1, lines 31-34: the website column.
ResolveWebsite ==
    /\ ppc = "website"
    /\ IF WebsiteYields(row.website)
       THEN /\ domain' = normalize_domain(row.website)
            /\ discovery_method' = "website"
            /\ ppc' = "crawl"
       ELSE /\ ppc' = "linkedin"
            /\ UNCHANGED <<domain, discovery_method>>
    /\ UNCHANGED <<row, env, li_resp, serp_resp>>
    /\ UNCHANGED <<notes, scoreVars, adapterVars, result, calls, failures>>
    /\ UNCHANGED <<crawlRest, rlVars, batchVars, fnVars>>

\* Stage 2, lines 37-47: the LinkedIn page; resp is what fetch_text gives.
ResolveLinkedIn(resp) ==
    /\ ppc = "linkedin"
    /\ IF row.linkedin_url = EmptyString
       THEN /\ ppc' = "serp"
            /\ UNCHANGED <<domain, discovery_method, li_resp, notes, calls>>
       ELSE /\ calls' = Append(calls, "linkedin:get")
            /\ li_resp' = resp
            /\ IF resp.status = "raise"
               THEN /\ notes' = Append(notes, Note("linkedin_parse_error", NoUrl))
                    /\ ppc' = IF Caught("linkedin") THEN "serp" ELSE "raised"
                    /\ UNCHANGED <<domain, discovery_method>>
               ELSE IF FirstDomain(resp.links) # None
               THEN /\ domain' = FirstDomain(resp.links)
                    /\ discovery_method' = "linkedin"
                    /\ ppc' = "crawl"
                    /\ UNCHANGED notes
               ELSE /\ ppc' = "serp"
                    /\ UNCHANGED <<domain, discovery_method, notes>>
    /\ UNCHANGED <<row, env, serp_resp>>
    /\ UNCHANGED <<scoreVars, adapterVars, result, failures>>
    /\ UNCHANGED <<crawlRest, rlVars, batchVars, fnVars>>

\* Stage 3, lines 50-73: SerpAPI, when enabled and keyed; resp is what
\* fetch_json gives.
ResolveSerp(resp) ==
    /\ ppc = "serp"
    /\ IF settings.USE_SERPAPI /\ env.SERPAPI_KEY
       THEN /\ calls' = calls \o <<"serpapi:acquire", "serpapi:get">>
            /\ serp_resp' = resp
            /\ IF resp.status # "ok"
               THEN /\ notes' = Append(notes, Note("serpapi_error", NoUrl))
                    /\ ppc' = IF Caught("serpapi") THEN "crawl" ELSE "raised"
                    /\ domain' = None
                    /\ discovery_method' = "unknown"
               ELSE IF FirstDomain(resp.links) # None
               THEN /\ domain' = FirstDomain(resp.links)
                    /\ discovery_method' = "serp"
                    /\ ppc' = "crawl"
                    /\ UNCHANGED notes
               ELSE /\ domain' = None
                    /\ discovery_method' = "unknown"
                    /\ ppc' = "crawl"
                    /\ UNCHANGED notes
       ELSE /\ domain' = None
            /\ discovery_method' = "unknown"
            /\ ppc' = "crawl"
            /\ UNCHANGED <<serp_resp, notes, calls>>
    /\ UNCHANGED <<row, env, li_resp>>
    /\ UNCHANGED <<scoreVars, adapterVars, result, failures>>
    /\ UNCHANGED <<crawlRest, rlVars, batchVars, fnVars>>

----------------------------------------------------------------------------
(* process_company (main.py) after the domain is resolved, and the Hunter  *)
(* and Apollo adapters.  An acquire() of an adapter's limiter is recorded  *)
(* in `calls`; what acquire() does is the RateLimiter section's subject.   *)

\* stop_after_attempt(3)

\* An attempt that raised: the request and the attempt's number.
Failure(req, n) == [req |-> req, attempt |-> n]

\* What a request of an adapter gave: it raised, or it answered with a list.
Answer(st, items) == [status |-> st, items |-> items]

\* A missing or empty "value" or "email" field of an answer's item.
NoEmail == Email(<<>>, <<>>)

\* Lines 60-70: the crawl is called when there is a domain.
CompanyCrawlCall ==
    /\ ppc = "crawl"
    /\ IF domain # None
       THEN /\ cpc' = "robots"
            /\ ppc' = "crawling"
            /\ UNCHANGED notes
       ELSE /\ notes' = Append(notes, Note("No domain discovered; skipping crawl", NoUrl))
            /\ ppc' = "hunter"
            /\ UNCHANGED cpc
    /\ UNCHANGED <<domain, settings, txt, robots, seen, q, pages_visited,
                   crawl_emails, crawl_notes, crawl_ret, fetched, site>>
    /\ UNCHANGED <<ddVars, scoreVars, adapterVars, result, calls, failures>>
    /\ UNCHANGED <<rlVars, batchVars, fnVars>>

\* Lines 66-68: the crawl has returned.
CompanyCrawlReturn ==
    /\ ppc = "crawling" /\ cpc = "done"
    /\ emails_by_source' = PutAll(emails_by_source, crawl_ret.emails, "page")
    /\ notes' = notes \o crawl_ret.notes
    /\ ppc' = "hunter"
    /\ UNCHANGED <<hunter_verification, emails, confidence, method>>
    /\ UNCHANGED <<ddVars, adapterVars, result, calls, failures>>
    /\ UNCHANGED <<crawlVars, rlVars, batchVars, fnVars>>

\* The adapters' gate with the flag ignored.
Enabled_KeyOnly(flag, key) == key

\* main.py lines 73 and 90: settings.USE_X and os.getenv("X_API_KEY")
Enabled(flag, key) == flag /\ key

\* hunter_domain_search lines 23-27: returns ([], {}) without a request.
HunterSearchSkips(dom) == dom = None \/ ~env.HUNTER_API_KEY

\* main.py line 73 and hunter_domain_search up to its acquire().
HunterStart ==
    /\ ppc = "hunter"
    /\ IF ~Enabled(settings.USE_HUNTER, env.HUNTER_API_KEY)
       THEN /\ ppc' = "apollo"
            /\ UNCHANGED <<to_verify, out, attempt, calls>>
       ELSE IF HunterSearchSkips(domain)
       THEN /\ to_verify' = Keys(emails_by_source)
            /\ out' = <<>>
            /\ ppc' = "verify"
            /\ UNCHANGED <<attempt, calls>>
       ELSE /\ calls' = Append(calls, "hunter:acquire")
            /\ attempt' = 1
            /\ ppc' = "hunter_search"
            /\ UNCHANGED <<to_verify, out>>
    /\ UNCHANGED <<ddVars, notes, scoreVars, apollo_results, result, failures>>
    /\ UNCHANGED <<crawlVars, rlVars, batchVars, fnVars>>

\* An except clause that records nothing.
HunterError_Silent == notes

\* The exception of an adapter reaches process_company's except clause.
HunterError == Append(notes, Note("hunter_error", NoUrl))
ApolloError == Append(notes, Note("apollo_error", NoUrl))

\* Lines 35-38: the "value" fields that are not empty
HunterValues(items) == SelectSeq(items, LAMBDA e : e # NoEmail)

\* One attempt of hunter_domain_search's request (lines 31-39) and, when it
\* answers, main.py lines 80-83.
HunterSearchAttempt(ans) ==
    /\ ppc = "hunter_search"
    /\ calls' = Append(calls, "hunter:search")
    /\ IF ans.status = "raise"
       THEN /\ failures' = Append(failures, Failure("hunter:search", attempt))
            /\ Len(failures) < MaxFailures
            /\ IF attempt < MAX_ATTEMPTS
               THEN /\ attempt' = attempt + 1
                    /\ UNCHANGED <<ppc, notes>>
               ELSE /\ notes' = HunterError
                    /\ ppc' = "apollo"
                    /\ UNCHANGED attempt
            /\ UNCHANGED <<emails_by_source, to_verify, out>>
       ELSE /\ emails_by_source' =
                   PutAll(emails_by_source, HunterValues(ans.items), "hunter")
            /\ to_verify' = Keys(emails_by_source')
            /\ out' = <<>>
            /\ ppc' = "verify"
            /\ UNCHANGED <<attempt, notes, failures>>
    /\ UNCHANGED <<hunter_verification, emails, confidence, method>>
    /\ UNCHANGED <<ddVars, apollo_results, result>>
    /\ UNCHANGED <<crawlVars, rlVars, batchVars, fnVars>>

\* hunter_verify_bulk lines 52-58 and 63: the loop's next e-mail, or the
\* return and main.py line 85.
HunterVerifyNext ==
    /\ ppc = "verify"
    /\ IF ~env.HUNTER_API_KEY
       THEN /\ hunter_verification' = <<>>
            /\ ppc' = "apollo"
            /\ UNCHANGED <<attempt, calls>>
       ELSE IF to_verify = <<>>
       THEN /\ hunter_verification' = out
            /\ ppc' = "apollo"
            /\ UNCHANGED <<attempt, calls>>
       ELSE /\ calls' = Append(calls, "hunter:acquire")
            /\ attempt' = 1
            /\ ppc' = "verify_attempt"
            /\ UNCHANGED hunter_verification
    /\ UNCHANGED <<emails_by_source, emails, confidence, method>>
    /\ UNCHANGED <<ddVars, notes, apollo_results, to_verify, out, result, failures>>
    /\ UNCHANGED <<crawlVars, rlVars, batchVars, fnVars>>

\* One attempt of the verifier's request for the loop's e-mail (lines
\* 59-62).  When the third attempt raises, hunter_verify_bulk raises and
\* its `out` is lost.
HunterVerifyAttempt(ans) ==
    /\ ppc = "verify_attempt"
    /\ calls' = Append(calls, "hunter:verify")
    /\ IF ans.status = "raise"
       THEN /\ failures' = Append(failures, Failure("hunter:verify", attempt))
            /\ Len(failures) < MaxFailures
            /\ IF attempt < MAX_ATTEMPTS
               THEN /\ attempt' = attempt + 1
                    /\ UNCHANGED <<ppc, notes>>
               ELSE /\ notes' = HunterError
                    /\ ppc' = "apollo"
                    /\ UNCHANGED attempt
            /\ UNCHANGED <<to_verify, out>>
       ELSE /\ out' = (Head(to_verify) :> ans.items) @@ out
            /\ to_verify' = Tail(to_verify)
            /\ ppc' = "verify"
            /\ UNCHANGED <<attempt, notes, failures>>
    /\ UNCHANGED scoreVars
    /\ UNCHANGED <<ddVars, apollo_results, result>>
    /\ UNCHANGED <<crawlVars, rlVars, batchVars, fnVars>>

\* apollo_people_for_domain lines 24-26: returns [] without a request.
ApolloSkips(dom) == ~env.APOLLO_API_KEY \/ dom = None

\* main.py line 90 and apollo_people_for_domain up to its acquire().
ApolloStart ==
    /\ ppc = "apollo"
    /\ IF ~Enabled(settings.USE_APOLLO, env.APOLLO_API_KEY)
       THEN /\ ppc' = "finish"
            /\ UNCHANGED <<apollo_results, attempt, calls>>
       ELSE IF ApolloSkips(domain)
       THEN /\ apollo_results' = <<>>
            /\ ppc' = "finish"
            /\ UNCHANGED <<attempt, calls>>
       ELSE /\ calls' = Append(calls, "apollo:acquire")
            /\ attempt' = 1
            /\ ppc' = "apollo_attempt"
            /\ UNCHANGED apollo_results
    /\ UNCHANGED <<ddVars, notes, scoreVars, to_verify, out, result, failures>>
    /\ UNCHANGED <<crawlVars, rlVars, batchVars, fnVars>>

\* Line 53: a person of the answer, simplified
Person(e) == [email |-> e, source |-> "apollo"]

\* Lines 98-101: the e-mails of the persons that have one
PersonEmails(people) ==
    LET having == SelectSeq(people, LAMBDA p : p.email # NoEmail)
    IN  [i \in DOMAIN having |-> having[i].email]

\* One attempt of apollo_people_for_domain's request (lines 39-58) and, when
\* it answers, main.py lines 98-101.
ApolloAttempt(ans) ==
    /\ ppc = "apollo_attempt"
    /\ calls' = Append(calls, "apollo:post")
    /\ IF ans.status = "raise"
       THEN /\ failures' = Append(failures, Failure("apollo:post", attempt))
            /\ Len(failures) < MaxFailures
            /\ IF attempt < MAX_ATTEMPTS
               THEN /\ attempt' = attempt + 1
                    /\ UNCHANGED <<ppc, notes>>
               ELSE /\ notes' = ApolloError
                    /\ ppc' = "finish"
                    /\ UNCHANGED attempt
            /\ UNCHANGED <<emails_by_source, apollo_results>>
       ELSE /\ apollo_results' = [i \in DOMAIN ans.items |-> Person(ans.items[i])]
            /\ emails_by_source' =
                   PutAll(emails_by_source, PersonEmails(apollo_results'), "apollo")
            /\ ppc' = "finish"
            /\ UNCHANGED <<attempt, notes, failures>>
    /\ UNCHANGED <<hunter_verification, emails, confidence, method>>
    /\ UNCHANGED <<ddVars, to_verify, out, result>>
    /\ UNCHANGED <<crawlVars, rlVars, batchVars, fnVars>>

\* The ResultRow of lines 113-127: None becomes "" (here: None), the
\* method is assess_confidence's when there is a domain.
ResultRow(dom, es, ebs, hv, ar, conf, meth, dm) ==
    [domain |-> dom,
     found_emails |-> es,
     emails_with_source |-> ebs,
     hunter_verification |-> hv,
     apollo_results |-> ar,
     confidence |-> conf,
     extraction_method |-> IF dom # None THEN meth
                           ELSE IF dm # "" THEN dm ELSE "serp"]

\* Lines 106-127: filter, dedupe, score, and return the record.
Finish ==
    /\ ppc = "finish"
    /\ emails' = dedupe_keep_order(
                     filter_emails_basic(Keys(emails_by_source), domain))
    /\ LET r == assess_confidence(emails', hunter_verification, emails_by_source)
       IN  /\ confidence' = r[1]
           /\ method' = r[2]
    /\ result' = ResultRow(domain, emails', emails_by_source,
                           hunter_verification, apollo_results,
                           confidence', method', discovery_method)
    /\ ppc' = "done"
    /\ UNCHANGED <<emails_by_source, hunter_verification>>
    /\ UNCHANGED <<ddVars, notes, adapterVars, calls, failures>>
    /\ UNCHANGED <<crawlVars, rlVars, batchVars, fnVars>>

----------------------------------------------------------------------------
(* main_async's tasks (main.py lines 167-187): one worker per record, all  *)
(* created before any runs, admitted by asyncio.Semaphore(concurrency).    *)
(* process_company is one call here: it returns a row or an exception      *)
(* escapes it.                                                             *)
(* The section starts at line 167.  Before it, line 141 reads the name     *)
(* httpx, which the import of line 150 makes local to main_async, so a     *)
(* call of main_async as written raises UnboundLocalError there; what      *)
(* follows is what the tasks do once they exist.                           *)

Companies == 1..NumCompanies

\* A call of write_outputs: the checkpoint flag and the rows it was given.
Write(cp, rows) == [checkpoint |-> cp, rows |-> rows]

\* State at line 169: the tasks exist, none has run.
BatchEntry(n, every) ==
    /\ concurrency = n
    /\ save_every = every
    /\ bpc = "gather"
    /\ wpc = [w \in Companies |-> "created"]
    /\ sem = n
    /\ results = <<>>
    /\ writes = <<>>

\* A checkpoint table: whether it has the column `domain`, and its rows.
Checkpoint(has, rows) == [has_domain |-> has, rows |-> rows]

\* pd.DataFrame(): what load_checkpoint returns without a readable file.
NoCheckpoint == Checkpoint(FALSE, <<>>)

\* No function is called on its own.
FnIdle ==
    /\ fpc = "idle"
    /\ fn_html = {}
    /\ fn_domain = <<>>
    /\ fn_url = [scheme |-> "", host |-> <<>>, path |-> ""]
    /\ fn_df = <<>>
    /\ fn_chk = NoCheckpoint
    /\ fn_ret = <<>>

\* No batch is running.
BatchIdle ==
    /\ concurrency = 1
    /\ save_every = 1
    /\ bpc = "idle"
    /\ wpc = [w \in Companies |-> "idle"]
    /\ sem = 1
    /\ results = <<>>
    /\ writes = <<>>

\* A semaphore that admits everyone.
SemAdmits_Always(value) == TRUE

\* asyncio.Semaphore.acquire returns only while the value is positive
SemAdmits(value) == value > 0

\* Line 172, `async with sem`: the worker is admitted and calls
\* process_company (line 174).
WorkerEnter(w) ==
    /\ bpc = "gather"
    /\ wpc[w] = "created"
    /\ SemAdmits(sem)
    /\ sem' = sem - 1
    /\ wpc' = [wpc EXCEPT ![w] = "in"]
    /\ UNCHANGED <<concurrency, save_every, bpc, results, writes>>
    /\ UNCHANGED <<crawlVars, rlVars, pcVars, fnVars>>

\* The except clause that lets the exception leave the worker.
WorkerCatches_Nothing(w) == FALSE

\* Line 178: except Exception
WorkerCatches(w) == TRUE

\* A checkpoint after every row.
CheckpointDue_Always(n, every) == TRUE

\* Line 176: len(results) % settings.save_every == 0
CheckpointDue(n, every) == n % every = 0

\* Lines 174-177 and the exit of `async with sem`: process_company returns
\* a row, which is appended, and every save_every rows a checkpoint is
\* written; the permit is released.
WorkerReturn(w) ==
    /\ bpc = "gather"
    /\ wpc[w] = "in"
    /\ results' = Append(results, w)
    /\ writes' = IF CheckpointDue(Len(results'), save_every)
                 THEN Append(writes, Write(TRUE, results'))
                 ELSE writes
    /\ sem' = sem + 1
    /\ wpc' = [wpc EXCEPT ![w] = "done"]
    /\ UNCHANGED <<concurrency, save_every, bpc>>
    /\ UNCHANGED <<crawlVars, rlVars, pcVars, fnVars>>

\* Lines 178-179 and the exit of `async with sem`: an exception escapes
\* process_company, is logged, and the permit is released.  Uncaught, it
\* would leave the worker and gather (line 184) would raise it.
WorkerFail(w) ==
    /\ bpc = "gather"
    /\ wpc[w] = "in"
    /\ sem' = sem + 1
    /\ IF WorkerCatches(w)
       THEN /\ wpc' = [wpc EXCEPT ![w] = "failed"]
            /\ UNCHANGED bpc
       ELSE /\ wpc' = [wpc EXCEPT ![w] = "raised"]
            /\ bpc' = "raised"
    /\ UNCHANGED <<concurrency, save_every, results, writes>>
    /\ UNCHANGED <<crawlVars, rlVars, pcVars, fnVars>>

\* Lines 184-187: gather returns when every task has ended; the final
\* write follows.
FinalWrite ==
    /\ bpc = "gather"
    /\ \A w \in Companies : wpc[w] \in {"done", "failed"}
    /\ writes' = Append(writes, Write(FALSE, results))
    /\ bpc' = "written"
    /\ UNCHANGED <<concurrency, save_every, wpc, sem, results>>
    /\ UNCHANGED <<crawlVars, rlVars, pcVars, fnVars>>

----------------------------------------------------------------------------
(* The crawl on its own: one call, any settings, any site. *)

InitCrawl ==
    /\ settings \in SettingsChoices
    /\ \E o \in SeedOrders : site = AnySite(o)
    /\ CrawlEntry(ExampleCom)
    /\ RateLimiterIdle
    /\ CompanyIdle
    /\ BatchIdle
    /\ FnIdle

NextCrawl == CrawlStep

SpecCrawl == InitCrawl /\ [][NextCrawl]_vars


(* C1: in one call of crawl_site_for_emails the number of page fetch       *)
(* requests issued, failed ones included, never exceeds                    *)
(* max_pages_per_site.                                                     *)
C1_FetchBudget ==
    Len(fetched) <= settings.max_pages_per_site

C3_FetchedAllowed ==
    txt = "text" => \A i \in DOMAIN fetched : can_fetch(robots, fetched[i].url)

C3_DisallowedSkipped ==
    ( /\ cpc = "loop" /\ LoopCondition
      /\ txt = "text" /\ ~can_fetch(robots, Head(q).url)
      /\ q' # q )
    => /\ q' = Tail(q)
       /\ crawl_notes' = Append(crawl_notes, Note("robots_disallow", Head(q).url))
       /\ fetched' = fetched

C3_RobotsRespected ==
    [](C3_FetchedAllowed) /\ [][C3_DisallowedSkipped]_vars

\* A discovered link that robots.txt disallows was skipped with its note,
\* in a crawl that did fetch pages.
C3_Witness ==
    /\ txt = "text"
    /\ fetched # <<>>
    /\ Note("robots_disallow", Url(WwwExampleCom, "/team/jobs"))
          \in Range(crawl_notes)

(* C4: if robots.txt disallows the site root, crawl_site_for_emails        *)
(* returns at once with no e-mails and the note robots_disallow:root, and  *)
(* issues no page fetch.                                                   *)
C4_RootDisallowAborts ==
    (txt = "text" /\ ~can_fetch(robots, base_url(domain)))
    => /\ cpc = "done"
       /\ crawl_ret.emails = <<>>
       /\ Note("robots_disallow:root", base_url(domain)) \in Range(crawl_ret.notes)
       /\ fetched = <<>>
       /\ q = <<>>

C4_Witness ==
    /\ cpc = "done"
    /\ txt = "text"
    /\ "/" \in robots
    /\ crawl_ret.notes = <<Note("robots_disallow:root", base_url(domain))>>

\* The URL's host, lower-cased, is the target domain or a subdomain of it.
C21_OnDomain(u) ==
    LET h == LowerSeq(u.host)
        n == Len(domain)
    IN  Len(h) >= n /\ SubSeq(h, Len(h) - n + 1, Len(h)) = LowerSeq(domain)

\* The URL's path holds one of the keywords, in any case, or is the root.
C21_KeywordOrRoot(u) ==
    \/ \E k \in KEYWORDS : k \in PathKeywords(lower(u.path))
    \/ u.path \in {"/", ""}

(* C21: every URL the crawl enqueues or fetches as a page lies on the      *)
(* target registrable domain (a subdomain counts) and has a path that      *)
(* holds one of the keywords or is the root path; a link to another        *)
(* registrable domain is never enqueued, keyword path or not.              *)
C21_OnDomainKeywordOnly ==
    /\ \A i \in DOMAIN q :
          C21_OnDomain(q[i].url) /\ C21_KeywordOrRoot(q[i].url)
    /\ \A i \in DOMAIN fetched :
          C21_OnDomain(fetched[i].url) /\ C21_KeywordOrRoot(fetched[i].url)

\* The page that links to othersite.com/contact was fetched, and the crawl
\* went on to fetch its on-domain link /Contact and to enqueue a
\* subdomain's page.
C21_Witness ==
    /\ BobOther \in crawl_emails
    /\ \E i \in DOMAIN fetched : fetched[i].url = Url(ExampleCom, "/Contact")
    /\ \E i \in DOMAIN q : q[i].url.host = WwwExampleCom

\* The step is a page fetch that fails.
C23_FetchFails ==
    /\ Len(fetched') = Len(fetched) + 1
    /\ ~fetched'[Len(fetched')].ok

(* C23: when a page fetch fails during a crawl, a fetch_error note naming  *)
(* that URL is recorded, the e-mails gathered so far are kept, and the     *)
(* crawl goes on with the remaining queued URLs: the failure neither ends  *)
(* the crawl nor costs page budget, and what the crawl returns holds every *)
(* e-mail gathered.                                                        *)
C23_Step ==
    C23_FetchFails =>
        /\ fetched'[Len(fetched')].url = Head(q).url
        /\ crawl_notes' = Append(crawl_notes, Note("fetch_error", Head(q).url))
        /\ crawl_emails' = crawl_emails
        /\ q' = Tail(q)
        /\ pages_visited' = pages_visited
        /\ cpc' = "loop"
        /\ q' # <<>> => LoopCondition'

C23_Returned ==
    (cpc = "done" /\ fetched # <<>>) => Range(crawl_ret.emails) = crawl_emails

C23_FetchFailureIsLocal ==
    [][C23_Step]_vars /\ []C23_Returned

\* A fetch failed after e-mails had been gathered, a later fetch succeeded,
\* and the crawl returned the e-mails.
C23_Witness ==
    /\ cpc = "done"
    /\ crawl_ret.emails # <<>>
    /\ \E i, j, k \in DOMAIN fetched :
          /\ i < j /\ j < k
          /\ fetched[i].ok /\ ~fetched[j].ok /\ fetched[k].ok
          /\ Note("fetch_error", fetched[j].url) \in Range(crawl_ret.notes)
          /\ fetched[j].url # base_url(domain)

(* C24: within one crawl each URL is enqueued at most once and no URL is   *)
(* fetched twice, whether the link appears on several referring pages or   *)
(* several times on one page.                                              *)
C24_EnqueuedOnce ==
    /\ \A i, j \in DOMAIN q : q[i].url = q[j].url => i = j
    /\ \A i, j \in DOMAIN fetched : fetched[i].url = fetched[j].url => i = j

\* The crawl scheduled by the event loop: every await of the coroutine
\* completes (the HTTP client has timeouts), so a crawl that can take a
\* step eventually takes one.
SpecCrawlFair == SpecCrawl /\ WF_vars(NextCrawl)

C25_RootDisallowed ==
    txt = "text" /\ ~can_fetch(robots, base_url(domain))

(* C25: whatever the pages link to and whatever each fetch does,           *)
(* crawl_site_for_emails eventually returns, and when it has returned      *)
(* either the root was robots-disallowed, or the queue is empty, or the    *)
(* count of visited pages has reached max_pages_per_site.                  *)
C25_Terminates ==
    /\ <>(cpc = "done")
    /\ [](cpc = "done" =>
            \/ C25_RootDisallowed
            \/ q = <<>>
            \/ pages_visited = settings.max_pages_per_site)

\* The crawl returned on its page budget with URLs still queued, after a
\* fetch that failed.
C25_Witness ==
    /\ cpc = "done"
    /\ q # <<>>
    /\ pages_visited = settings.max_pages_per_site
    /\ settings.max_pages_per_site > 1
    /\ \E i \in DOMAIN fetched : ~fetched[i].ok

----------------------------------------------------------------------------
(* One RateLimiter shared by concurrent callers. *)

InitRL ==
    /\ \E n \in 1..MaxPerMinute : RateLimiterInit(n)
    /\ CrawlIdle
    /\ CompanyIdle
    /\ BatchIdle
    /\ FnIdle
NextRL ==
    \/ \E c \in Callers : AcquireNoWait(c) /\ UNCHANGED apiVars
    \/ \E c \in Callers : AcquireSleep(c) /\ UNCHANGED apiVars
    \/ \E c \in Callers : AcquireWake(c) /\ UNCHANGED apiVars
    \/ Tick /\ UNCHANGED apiVars

SpecRL == InitRL /\ [][NextRL]_vars

\* The acquire() completions in the 60 seconds that start at time t.
InWindow(t) ==
    {j \in DOMAIN completions : t <= completions[j] /\ completions[j] < t + WINDOW}

(* C5: for a RateLimiter of N per minute and any number of concurrent      *)
(* callers, no rolling 60-second window holds more than N acquire()        *)
(* completions.                                                            *)
C5_WindowBound ==
    \A i \in DOMAIN completions :
        Cardinality(InWindow(completions[i])) <= per_minute

----------------------------------------------------------------------------
(* Concurrent requests to one API behind its RateLimiter. *)

InitRequests == InitRL

NextRequests ==
    \/ \E c \in Callers : RequestAcquireNoWait(c)
    \/ \E c \in Callers : RequestAcquireSleep(c)
    \/ \E c \in Callers : RequestAcquireWake(c)
    \/ \E c \in Callers, ok \in BOOLEAN, jitter \in Jitters :
          RequestAttempt(c, ok, jitter)
    \/ Tick /\ UNCHANGED apiVars
    \/ BackoffTick

SpecRequests == InitRequests /\ [][NextRequests]_vars

\* The HTTP requests sent in the 60 seconds that start at time t.
C28_SentInWindow(t) ==
    {j \in DOMAIN sent : t <= sent[j] /\ sent[j] < t + WINDOW}

(* C28: the number of HTTP requests sent to one external API in any        *)
(* rolling 60-second window never exceeds that API's per-minute budget,    *)
(* retry attempts included.                                                *)
C28_RequestsWithinBudget ==
    \A i \in DOMAIN sent :
        Cardinality(C28_SentInWindow(sent[i])) <= per_minute


----------------------------------------------------------------------------
(* assess_confidence on its own: any list of at most MaxEmails addresses,  *)
(* any sources and any verdicts for them.                                  *)

ScoredEmails == {InfoUpper, InfoEx, JaneDot, JaneDoe, BobOther}

EmailLists == UNION {[1..n -> ScoredEmails] : n \in 0..MaxEmails}

\* The dicts with the keys D, inserted in sorted order.
SourceMaps(D) ==
    {[i \in DOMAIN sorted(D) |-> Entry(sorted(D)[i], f[sorted(D)[i]])] :
        f \in [D -> Sources]}

InitConf ==
    /\ emails \in EmailLists
    /\ \E D \in SUBSET Range(emails) : emails_by_source \in SourceMaps(D)
    /\ \E D \in SUBSET Range(emails) : hunter_verification \in [D -> Verdicts]
    /\ ppc = "assess"
    /\ row = Row(EmptyString, EmptyString)
    /\ env = Env(FALSE, FALSE, FALSE)
    /\ discovery_method = ""
    /\ notes = <<>>
    /\ apollo_results = <<>>
    /\ confidence = ""
    /\ method = ""
    /\ result = <<>>
    /\ to_verify = <<>>
    /\ out = <<>>
    /\ attempt = 0
    /\ calls = <<>>
    /\ failures = <<>>
    /\ li_resp = Unasked
    /\ serp_resp = Unasked
    /\ CrawlIdle
    /\ RateLimiterIdle
    /\ BatchIdle
    /\ FnIdle

NextConf == AssessConfidence

SpecConf == InitConf /\ [][NextConf]_vars

\* The positions of `emails` that match rules 1, 2 and 3.
C7_Valid ==
    {i \in DOMAIN emails :
        /\ emails[i] \in DOMAIN hunter_verification
        /\ hunter_verification[emails[i]] = Verdict("valid")}
C7_Apollo ==
    {i \in DOMAIN emails : Entry(emails[i], "apollo") \in Range(emails_by_source)}
C7_Medium ==
    {i \in DOMAIN emails :
        /\ Entry(emails[i], "page") \in Range(emails_by_source)
        /\ \/ /\ Len(emails[i].local) >= 2
              /\ "" \notin Range(emails[i].local)
           \/ \A g \in GENERIC_PREFIXES : LowerSeq(emails[i].local) # <<g>>}
C7_Min(S) == CHOOSE i \in S : \A j \in S : i <= j
C7_Source(e) ==
    IF \E src \in Sources : Entry(e, src) \in Range(emails_by_source)
    THEN CHOOSE src \in Sources : Entry(e, src) \in Range(emails_by_source)
    ELSE "page"

(* C7: assess_confidence returns the outcome of the first matching rule:   *)
(* (1) an e-mail with a valid verdict: (high, that e-mail's source);       *)
(* (2) an e-mail whose source is apollo: (high, apollo); (3) a page e-mail *)
(* with a dotted local part of non-empty segments, or a local part that is *)
(* no generic prefix: (medium, page); (4) a non-empty list: (low, source   *)
(* of the first e-mail); (5) the empty list: (low, serp).  A lone page     *)
(* info@ yields low, a lone page jane.doe@ medium.                         *)
C7_FirstRuleWins ==
    ppc = "assessed" =>
        /\ C7_Valid # {} =>
              /\ confidence = "high"
              /\ method = C7_Source(emails[C7_Min(C7_Valid)])
        /\ (C7_Valid = {} /\ C7_Apollo # {}) =>
              (confidence = "high" /\ method = "apollo")
        /\ (C7_Valid = {} /\ C7_Apollo = {} /\ C7_Medium # {}) =>
              (confidence = "medium" /\ method = "page")
        /\ (C7_Valid = {} /\ C7_Apollo = {} /\ C7_Medium = {} /\ emails # <<>>) =>
              (confidence = "low" /\ method = C7_Source(emails[1]))
        /\ emails = <<>> => (confidence = "low" /\ method = "serp")
        /\ ( /\ emails = <<InfoEx>>
             /\ emails_by_source = <<Entry(InfoEx, "page")>>
             /\ hunter_verification = <<>> ) => confidence = "low"
        /\ ( /\ emails = <<JaneDoe>>
             /\ emails_by_source = <<Entry(JaneDoe, "page")>>
             /\ hunter_verification = <<>> ) => confidence = "medium"

\* Rule 3 decided the outcome although an e-mail with a risky verdict and a
\* hunter-sourced one came first in the list.
C7_Witness ==
    /\ ppc = "assessed"
    /\ Len(emails) = 2
    /\ C7_Valid = {} /\ C7_Apollo = {} /\ C7_Medium = {2}
    /\ emails[1] \in DOMAIN hunter_verification
    /\ confidence = "medium"

----------------------------------------------------------------------------
(* One company through process_company: any row, the adapters on or off,   *)
(* keyed or not, any answer from LinkedIn, the search API, the site,       *)
(* Hunter and Apollo.                                                      *)

LinkedInUrl == UrlString("https", <<"www", "linkedin", "com">>, "/company/example")
WebsiteUrl == UrlString("https", <<"www", "Example", "com">>, "/about")
ExampleUrl == UrlString("https", <<"example", "com">>, "")
\* a string urlparse refuses, and a host without a public suffix
BracketUrl == UrlString("http", <<"[">>, "")
LocalhostUrl == UrlString("", <<"localhost">>, "")

Rows ==
    { Row(WebsiteUrl, LinkedInUrl),
      Row(LocalhostUrl, LinkedInUrl),
      Row(EmptyString, EmptyString) }

\* <<Settings, Env>>: everything on and keyed, everything off, everything
\* on without keys, Hunter alone, Apollo alone.
Configs ==
    { <<Settings(1, DEFAULT_MAX_DEPTH, TRUE, TRUE, TRUE), Env(TRUE, TRUE, TRUE)>>,
      <<Settings(1, DEFAULT_MAX_DEPTH, FALSE, FALSE, FALSE), Env(TRUE, TRUE, TRUE)>>,
      <<Settings(1, DEFAULT_MAX_DEPTH, TRUE, TRUE, TRUE), Env(FALSE, FALSE, FALSE)>>,
      <<Settings(1, DEFAULT_MAX_DEPTH, TRUE, FALSE, FALSE), Env(TRUE, TRUE, TRUE)>>,
      <<Settings(1, DEFAULT_MAX_DEPTH, TRUE, TRUE, FALSE), Env(FALSE, TRUE, FALSE)>> }

CompanySites ==
    { Site({"None"}, {{}}, {Page(<<>>, {InfoUpper})}, FALSE, KeywordList),
      Site({"text"}, {{"/contact"}, {"/"}},
           {Page(<<Href(Url(ExampleCom, "/team"))>>, {JaneDoe, Throwaway})},
           TRUE, KeywordList) }

LinkedInResponses ==
    { Raised, Resp("ok", <<>>), Resp("ok", <<BracketUrl, ExampleUrl>>) }

SerpResponses ==
    { Raised, Resp("ok", <<>>), Resp("ok", <<EmptyString, ExampleUrl>>),
      Resp("malformed", <<ExampleUrl>>) }

HunterSearchAnswers ==
    { Answer("raise", <<>>), Answer("ok", <<>>),
      Answer("ok", <<InfoEx, BobSpace>>), Answer("ok", <<Throwaway, NoEmail>>) }

HunterVerifyAnswers ==
    { Answer("raise", <<>>), Answer("ok", Verdict("valid")),
      Answer("ok", Verdict("risky")) }

ApolloAnswers ==
    { Answer("raise", <<>>), Answer("ok", <<>>),
      Answer("ok", <<InfoEx, NoEmail>>), Answer("ok", <<BobOther>>) }

InitCompany ==
    /\ row \in Rows
    /\ \E c \in Configs : settings = c[1] /\ env = c[2]
    /\ site \in CompanySites
    /\ ppc = "website"
    /\ CompanyLocals
    /\ domain = None
    /\ cpc = "idle"
    /\ txt = "unbound"
    /\ robots = {}
    /\ seen = {}
    /\ q = <<>>
    /\ pages_visited = 0
    /\ crawl_emails = {}
    /\ crawl_notes = <<>>
    /\ crawl_ret = NoReturn
    /\ fetched = <<>>
    /\ RateLimiterIdle
    /\ BatchIdle
    /\ FnIdle

NextCompany ==
    \/ ResolveWebsite
    \/ \E resp \in LinkedInResponses : ResolveLinkedIn(resp)
    \/ \E resp \in SerpResponses : ResolveSerp(resp)
    \/ CompanyCrawlCall
    \/ CrawlStep
    \/ CompanyCrawlReturn
    \/ HunterStart
    \/ \E ans \in HunterSearchAnswers : HunterSearchAttempt(ans)
    \/ HunterVerifyNext
    \/ \E ans \in HunterVerifyAnswers : HunterVerifyAttempt(ans)
    \/ ApolloStart
    \/ \E ans \in ApolloAnswers : ApolloAttempt(ans)
    \/ Finish

SpecCompany == InitCompany /\ [][NextCompany]_vars

\* determine_domain_for_company has returned to process_company.
C8_Returned == ppc \notin {"idle", "website", "linkedin", "serp", "raised"}
C8_Count(x) == Cardinality({i \in DOMAIN calls : calls[i] = x})
C8_WebsiteDomain ==
    IF row.website = EmptyString THEN None ELSE normalize_domain(row.website)
C8_LinkedInDomain ==
    IF li_resp.status = "ok" THEN FirstDomain(li_resp.links) ELSE None
C8_SerpDomain ==
    IF serp_resp.status = "ok" THEN FirstDomain(serp_resp.links) ELSE None

(* C8: determine_domain_for_company tries the website field, then the      *)
(* LinkedIn page, then the search API, and returns at the first stage that *)
(* yields a normalizable domain, tagged website, linkedin or serp; after a *)
(* stage has succeeded no later stage's request or acquire is made, and    *)
(* the search API is queried at most once per company.                     *)
C8_OrderedFallback ==
    /\ C8_Count("serpapi:get") <= 1 /\ C8_Count("serpapi:acquire") <= 1
    /\ C8_Count("linkedin:get") <= 1
    /\ C8_Returned =>
          /\ C8_WebsiteDomain # None =>
                /\ domain = C8_WebsiteDomain /\ discovery_method = "website"
                /\ li_resp = Unasked /\ serp_resp = Unasked
                /\ C8_Count("linkedin:get") = 0
                /\ C8_Count("serpapi:get") = 0
                /\ C8_Count("serpapi:acquire") = 0
          /\ (C8_WebsiteDomain = None /\ C8_LinkedInDomain # None) =>
                /\ domain = C8_LinkedInDomain /\ discovery_method = "linkedin"
                /\ serp_resp = Unasked
                /\ C8_Count("serpapi:get") = 0
                /\ C8_Count("serpapi:acquire") = 0
          /\ ( /\ C8_WebsiteDomain = None /\ C8_LinkedInDomain = None
               /\ C8_SerpDomain # None ) =>
                (domain = C8_SerpDomain /\ discovery_method = "serp")
          /\ discovery_method = "linkedin" => row.linkedin_url # EmptyString
          /\ discovery_method = "serp" =>
                (settings.USE_SERPAPI /\ env.SERPAPI_KEY)

\* The website column did not normalize, the LinkedIn page gave the domain,
\* and the enabled, keyed search API was not asked.
C8_Witness ==
    /\ ppc = "crawl"
    /\ row.website # EmptyString
    /\ discovery_method = "linkedin" /\ domain = ExampleCom
    /\ settings.USE_SERPAPI /\ env.SERPAPI_KEY
    /\ calls = <<"linkedin:get">>

(* C9: determine_domain_for_company never raises to its caller: whatever   *)
(* the LinkedIn fetch or the search API call does, it returns a domain and *)
(* a method, and when no stage yields a domain it returns None and         *)
(* unknown, with a note for each stage that raised.                        *)
C9_NeverRaises ==
    /\ ppc # "raised"
    /\ C8_Returned =>
          /\ discovery_method \in {"website", "linkedin", "serp", "unknown"}
          /\ domain = None <=> discovery_method = "unknown"
          /\ ( /\ C8_WebsiteDomain = None /\ C8_LinkedInDomain = None
               /\ C8_SerpDomain = None ) =>
                (domain = None /\ discovery_method = "unknown")
          /\ li_resp.status = "raise" =>
                \E i \in DOMAIN notes : notes[i].kind = "linkedin_parse_error"
          /\ serp_resp.status \in {"raise", "malformed"} =>
                \E i \in DOMAIN notes : notes[i].kind = "serpapi_error"

\* Both the LinkedIn fetch and the search API call raised, and the function
\* returned None and unknown with the two notes.
C9_Witness ==
    /\ ppc = "crawl"
    /\ li_resp.status = "raise" /\ serp_resp.status = "raise"
    /\ domain = None /\ discovery_method = "unknown"
    /\ Len(notes) = 2

C10_AdapterCalls ==
    {i \in DOMAIN calls :
        calls[i] \in {"hunter:acquire", "hunter:search", "hunter:verify",
                      "apollo:acquire", "apollo:post"}}

(* C10: when resolution yields no domain, process_company issues no crawl  *)
(* fetch and no Hunter or Apollo request or acquire, even with the         *)
(* adapters enabled and keyed, and returns a record with an empty domain,  *)
(* no e-mails and confidence low.                                          *)
C10_NoDomainSkips ==
    (C8_Returned /\ domain = None) =>
        /\ cpc = "idle" /\ fetched = <<>> /\ txt = "unbound"
        /\ C10_AdapterCalls = {}
        /\ ppc = "done" =>
              /\ result.domain = None
              /\ result.found_emails = <<>>
              /\ result.emails_with_source = <<>>
              /\ result.confidence = "low"

\* A record was returned for a company without a domain, Hunter and Apollo
\* being enabled and keyed.
C10_Witness ==
    /\ ppc = "done" /\ domain = None
    /\ settings.USE_HUNTER /\ env.HUNTER_API_KEY
    /\ settings.USE_APOLLO /\ env.APOLLO_API_KEY
    /\ result.confidence = "low"

(* C6: for every company, if the verifier returned a verdict with result   *)
(* valid for an e-mail gathered for that company, from the crawl or from   *)
(* Hunter, the emitted record has confidence high.                         *)
C6_ValidYieldsHigh ==
    ppc = "done" =>
        ((\E e \in DOMAIN out : out[e].result = "valid") =>
            result.confidence = "high")

C11_Calls(prefix) == {i \in DOMAIN calls : calls[i] \in prefix}
C11_Notes(kind) == {i \in DOMAIN notes : notes[i].kind = kind}
C11_From(src) == {i \in DOMAIN emails_by_source : emails_by_source[i].source = src}

(* C11: an adapter whose feature flag is off or whose key is absent is a   *)
(* no-op: no request, no acquire of its limiter, no e-mails, verdicts or   *)
(* person records from it, and no error note.                              *)
C11_DisabledIsNoOp ==
    /\ ~(settings.USE_HUNTER /\ env.HUNTER_API_KEY) =>
          /\ C11_Calls({"hunter:acquire", "hunter:search", "hunter:verify"}) = {}
          /\ C11_From("hunter") = {}
          /\ hunter_verification = <<>> /\ out = <<>>
          /\ C11_Notes("hunter_error") = {}
          /\ ppc = "done" => result.hunter_verification = <<>>
    /\ ~(settings.USE_APOLLO /\ env.APOLLO_API_KEY) =>
          /\ C11_Calls({"apollo:acquire", "apollo:post"}) = {}
          /\ C11_From("apollo") = {}
          /\ apollo_results = <<>>
          /\ C11_Notes("apollo_error") = {}
          /\ ppc = "done" => result.apollo_results = <<>>

\* With a domain, Hunter's flag on but its key absent, and Apollo enabled:
\* a record was returned, Apollo was asked and Hunter left no trace.
C11_Witness ==
    /\ ppc = "done" /\ domain # None
    /\ settings.USE_HUNTER /\ ~env.HUNTER_API_KEY
    /\ C11_Calls({"apollo:post"}) # {}
    /\ C11_Calls({"hunter:acquire", "hunter:search", "hunter:verify"}) = {}
    /\ emails_by_source # <<>>

\* The request's third attempt raised.
C12_Exhausted(req) ==
    \E i \in DOMAIN failures : failures[i] = Failure(req, MAX_ATTEMPTS)
C12_AfterHunter == ppc \in {"apollo", "apollo_attempt", "finish", "done"}
C12_AfterApollo == ppc \in {"finish", "done"}

(* C12 as stated: when a source's request exhausts its retries,            *)
(* process_company records a note for the source, the source contributes   *)
(* nothing (no e-mails attributed to it, no verdicts, no person records),  *)
(* and the remaining stages run so that a record is returned.              *)
C12_SourceContributesNothing ==
    /\ (C12_Exhausted("hunter:search") \/ C12_Exhausted("hunter:verify")) =>
          /\ C12_AfterHunter
          /\ C11_Notes("hunter_error") # {}
          /\ C11_From("hunter") = {}
          /\ hunter_verification = <<>>
    /\ C12_Exhausted("apollo:post") =>
          /\ C12_AfterApollo
          /\ C11_Notes("apollo_error") # {}
          /\ C11_From("apollo") = {}
          /\ apollo_results = <<>>

(* C12, amended: the request that exhausts its retries contributes         *)
(* nothing: after the domain search no e-mail is attributed to hunter and  *)
(* there are no verdicts; after a verification there are no verdicts, the  *)
(* e-mails the domain search found staying attributed to hunter; after the *)
(* people search there are no person records and no e-mail attributed to   *)
(* apollo.  A note is recorded in each case, the next stage is entered,    *)
(* no exception leaves process_company, and the record returned holds      *)
(* what the stages left.                                                   *)
C12_RequestContributesNothing ==
    /\ C12_Exhausted("hunter:search") =>
          /\ C12_AfterHunter
          /\ C11_Notes("hunter_error") # {}
          /\ C11_From("hunter") = {}
          /\ hunter_verification = <<>>
    /\ C12_Exhausted("hunter:verify") =>
          /\ C12_AfterHunter
          /\ C11_Notes("hunter_error") # {}
          /\ hunter_verification = <<>>
    /\ C12_Exhausted("apollo:post") =>
          /\ C12_AfterApollo
          /\ C11_Notes("apollo_error") # {}
          /\ C11_From("apollo") = {}
          /\ apollo_results = <<>>
    /\ ppc = "done" =>
          /\ result.hunter_verification = hunter_verification
          /\ result.apollo_results = apollo_results
          /\ result.emails_with_source = emails_by_source
    /\ ppc # "raised"

\* A verification exhausted its retries after the domain search had found
\* e-mails; Apollo was asked all the same and the record was returned.
C12_Witness ==
    /\ ppc = "done"
    /\ C12_Exhausted("hunter:verify")
    /\ C11_From("hunter") # {}
    /\ C11_Calls({"apollo:post"}) # {}
    /\ result.hunter_verification = <<>>

----------------------------------------------------------------------------
(* A batch: any concurrency, any checkpoint interval, any order of the     *)
(* workers' steps, any company failing.                                    *)

InitBatch ==
    /\ \E n \in 1..MaxConcurrency, every \in 1..MaxSaveEvery : BatchEntry(n, every)
    /\ CrawlIdle
    /\ RateLimiterIdle
    /\ CompanyIdle
    /\ FnIdle

NextBatch ==
    \/ \E w \in Companies : WorkerEnter(w)
    \/ \E w \in Companies : WorkerReturn(w)
    \/ \E w \in Companies : WorkerFail(w)
    \/ FinalWrite

SpecBatch == InitBatch /\ [][NextBatch]_vars

C13_Inside == {w \in Companies : wpc[w] = "in"}

(* C13: at every moment of a batch run, under any interleaving of the      *)
(* workers, at most settings.concurrency companies are inside              *)
(* process_company.                                                        *)
C13_ConcurrencyBound ==
    /\ Cardinality(C13_Inside) <= concurrency
    /\ sem = concurrency - Cardinality(C13_Inside)

\* The gate is full while another worker waits.
C13_Witness ==
    /\ Cardinality(C13_Inside) = concurrency
    /\ \E w \in Companies : wpc[w] = "created"
    /\ \E w \in Companies : wpc[w] \in {"done", "failed"}

\* The event loop runs a task that can take a step.
SpecBatchFair == SpecBatch /\ WF_vars(NextBatch)

C14_Failed == {w \in Companies : wpc[w] = "failed"}
C14_CaughtInWorker ==
    /\ bpc # "raised"
    /\ \A w \in C14_Failed : w \notin Range(results)
    /\ sem = concurrency - Cardinality(C13_Inside)
    /\ bpc = "written" =>
          /\ \A w \in Companies :
                \/ wpc[w] = "done" /\ w \in Range(results)
                \/ wpc[w] = "failed"
          /\ writes[Len(writes)] = Write(FALSE, results)
C14_NotRetried ==
    \A w \in C14_Failed : wpc'[w] = "failed" /\ w \notin Range(results')

(* C14: an exception that escapes process_company for one company is       *)
(* caught in that company's worker: the company adds no row to results and *)
(* is not retried, its permit is released, every other company still runs  *)
(* to completion, and the final write_outputs still happens.               *)
C14_FailureIsLocal ==
    /\ []C14_CaughtInWorker
    /\ [][C14_NotRetried]_vars
    /\ (C14_Failed # {}) ~> (bpc = "written")

\* The first company failed while the gate was full; the others returned
\* their rows and the final write was made.
C14_Witness ==
    /\ bpc = "written"
    /\ wpc[1] = "failed"
    /\ \A w \in Companies \ {1} : wpc[w] = "done"
    /\ Len(results) = NumCompanies - 1

(* C15: within one company's processing emails_by_source maps each        *)
(* address, compared case-insensitively, to exactly one source, the first  *)
(* of page, hunter, apollo that discovered it; a later source reporting    *)
(* the address in another letter case adds no second key.                  *)
C15_CaseInsensitiveKeys ==
    \A i, j \in DOMAIN emails_by_source :
        EmailLower(emails_by_source[i].email) =
            EmailLower(emails_by_source[j].email) => i = j

(* C16: the e-mail-to-source map emitted in every record holds no address  *)
(* whose domain is on the disposable-domain denylist, whichever source     *)
(* reported it.                                                            *)
C16_NoDisposableEmitted ==
    ppc = "done" =>
        \A i \in DOMAIN result.emails_with_source :
            LowerSeq(result.emails_with_source[i].email.dom)
                \notin DISPOSABLE_DOMAINS

----------------------------------------------------------------------------
(* extract_emails_from_html on its own: any text, with or without a        *)
(* domain.                                                                 *)

\* The e-mail-shaped occurrences a text can hold.
Occurrences ==
    {InfoUpper, InfoEx, JaneDoe, BobOther, Logo2x, LogoUpper, MailtoHello,
     SupportDot}

BiasDomains == {None, ExampleCom, <<"Example", "com">>}

\* The call extract_emails_from_html(html, domain)
ExtractCall ==
    /\ fpc = "extract"
    /\ fn_ret' = extract_emails_from_html(Page(<<>>, fn_html), fn_domain)
    /\ fpc' = "returned"
    /\ UNCHANGED fnArgs
    /\ UNCHANGED <<crawlVars, rlVars, pcVars, batchVars>>

InitExtract ==
    /\ fpc = "extract"
    /\ fn_html \in SUBSET Occurrences
    /\ fn_domain \in BiasDomains
    /\ fn_url = EmptyString
    /\ fn_df = <<>>
    /\ fn_chk = NoCheckpoint
    /\ fn_ret = <<>>
    /\ CrawlIdle
    /\ RateLimiterIdle
    /\ CompanyIdle
    /\ BatchIdle

NextExtract == ExtractCall

SpecExtract == InitExtract /\ [][NextExtract]_vars

(* C17: for any text and any bias domain, or none,                         *)
(* extract_emails_from_html never returns two addresses that differ only   *)
(* in letter case.                                                         *)
C17_CaseInsensitiveDedup ==
    fpc = "returned" =>
        \A i, j \in DOMAIN fn_ret :
            EmailLower(fn_ret[i]) = EmailLower(fn_ret[j]) => i = j

C18_Plain == extract_emails_from_html(Page(<<>>, fn_html), None)
C18_On(e) == LowerSeq(e.dom) = LowerSeq(fn_domain)
C18_Pos(e) == CHOOSE k \in DOMAIN EmailOrder : EmailOrder[k] = e

(* C18: with a bias domain extract_emails_from_html returns the same set   *)
(* of addresses as without one, every address ending in @domain, letter    *)
(* case ignored, before every other address, each of the two groups in     *)
(* sorted (string) order; no off-domain address is dropped.                *)
C18_BiasOnlyReorders ==
    (fpc = "returned" /\ fn_domain # None) =>
        /\ Range(fn_ret) = Range(C18_Plain)
        /\ Len(fn_ret) = Len(C18_Plain)
        /\ \A i, j \in DOMAIN fn_ret :
              i < j =>
                 /\ ~(C18_On(fn_ret[j]) /\ ~C18_On(fn_ret[i]))
                 /\ (C18_On(fn_ret[i]) <=> C18_On(fn_ret[j])) =>
                        C18_Pos(fn_ret[i]) < C18_Pos(fn_ret[j])
        /\ (fn_html = {JaneDoe, InfoEx} /\ fn_domain = ExampleCom) =>
              fn_ret = <<InfoEx, JaneDoe>>

\* An off-domain address that sorts before the on-domain ones was returned
\* after them, the domain given in another letter case.
C18_Witness ==
    /\ fpc = "returned"
    /\ fn_domain = <<"Example", "com">>
    /\ fn_ret = <<InfoUpper, InfoEx, JaneDoe, BobOther>>
    /\ C18_Plain = <<InfoUpper, BobOther, InfoEx, JaneDoe>>

C19_MailtoPrefixed == {"mailto:hello"}
C19_PunctuationTrailed == {"com."}

(* C19: for any text no element of extract_emails_from_html's output ends, *)
(* letter case ignored, in an image file extension, and none carries a     *)
(* mailto: prefix or trailing punctuation; the address after a mailto: and *)
(* the one before a full stop are returned.                                *)
C19_NoImagesNoMailto ==
    fpc = "returned" =>
        /\ \A i \in DOMAIN fn_ret :
              /\ lower(fn_ret[i].dom[Len(fn_ret[i].dom)]) \notin IMAGE_EXT
              /\ fn_ret[i].local[1] \notin C19_MailtoPrefixed
              /\ fn_ret[i].dom[Len(fn_ret[i].dom)] \notin C19_PunctuationTrailed
        /\ MailtoHello \in fn_html => Hello \in Range(fn_ret)
        /\ SupportDot \in fn_html => Support \in Range(fn_ret)

\* A text with both image names, the mailto: link and the address before a
\* full stop gave the two addresses.
C19_Witness ==
    /\ fpc = "returned"
    /\ fn_html = {Logo2x, LogoUpper, MailtoHello, SupportDot}
    /\ fn_ret = <<Hello, Support>>

----------------------------------------------------------------------------
(* normalize_domain on its own: any scheme, host and path.                 *)

NormalizeHosts ==
    { <<>>, ExampleCom, WwwExampleCom, <<"Sub", "Example", "co", "uk">>,
      <<"www", "Example", "com">>, <<"example", "ai">>, <<"localhost">>,
      <<"[">>, <<"co", "uk">>, <<"com">>, <<"sub", "othersite", "com">> }

NormalizeInputs ==
    { UrlString(sc, h, p) :
        sc \in {"", "http", "https"}, h \in NormalizeHosts, p \in {"", "/path"} }

\* The call normalize_domain(url_or_domain)
NormalizeCall ==
    /\ fpc = "normalize"
    /\ fn_ret' = normalize_domain(fn_url)
    /\ fpc' = "returned"
    /\ UNCHANGED fnArgs
    /\ UNCHANGED <<crawlVars, rlVars, pcVars, batchVars>>

InitNormalize ==
    /\ fpc = "normalize"
    /\ fn_url \in NormalizeInputs
    /\ fn_html = {}
    /\ fn_domain = <<>>
    /\ fn_df = <<>>
    /\ fn_chk = NoCheckpoint
    /\ fn_ret = <<>>
    /\ CrawlIdle
    /\ RateLimiterIdle
    /\ CompanyIdle
    /\ BatchIdle

NextNormalize == NormalizeCall

SpecNormalize == InitNormalize /\ [][NextNormalize]_vars

(* C20: normalize_domain is idempotent on its own output: when it returns  *)
(* a domain d, a lower-cased label and a public suffix, then d normalizes  *)
(* to d, with or without a scheme before it; the empty input, a string     *)
(* without a host and one urlparse refuses give None.                      *)
C20_Idempotent ==
    fpc = "returned" =>
        /\ fn_ret # None =>
              /\ \A sc \in {"", "http", "https"} :
                    normalize_domain(UrlString(sc, fn_ret, "")) = fn_ret
              /\ fn_ret = LowerSeq(fn_ret)
              /\ Len(fn_ret) >= 2
              /\ SubSeq(fn_ret, 2, Len(fn_ret)) \in PublicSuffixes
              /\ \E k \in 0..Len(fn_url.host) :
                    fn_ret = LowerSeq(SubSeq(fn_url.host, k + 1, Len(fn_url.host)))
        /\ fn_url.host \in {<<>>, <<"[">>} => fn_ret = None
        /\ fn_url.host = <<"Sub", "Example", "co", "uk">> =>
              fn_ret = <<"example", "co", "uk">>
        /\ fn_url.host = <<"example", "ai">> => fn_ret = <<"example", "ai">>

\* https://Sub.Example.co.uk/path gave example.co.uk.
C20_Witness ==
    /\ fpc = "returned"
    /\ fn_url = UrlString("https", <<"Sub", "Example", "co", "uk">>, "/path")
    /\ fn_ret = <<"example", "co", "uk">>

----------------------------------------------------------------------------
(* The checkpoints of a batch. *)

\* The calls of write_outputs with checkpoint=True, in order.
C27_Checkpoints == SelectSeq(writes, LAMBDA wr : wr.checkpoint)

\* The k-th checkpoint holds the first k * save_every results, and there
\* is one for every multiple of save_every reached.
C27_Snapshots ==
    /\ Len(C27_Checkpoints) = Len(results) \div save_every
    /\ \A k \in DOMAIN C27_Checkpoints :
          C27_Checkpoints[k].rows = SubSeq(results, 1, k * save_every)

\* A step that appends a result writes the checkpoint in the same step
\* when the count is a multiple of save_every, and no step else writes one.
C27_Step ==
    /\ results' # results =>
          /\ Len(results') = Len(results) + 1
          /\ SubSeq(results', 1, Len(results)) = results
          /\ IF Len(results') % save_every = 0
             THEN writes' = Append(writes, Write(TRUE, results'))
             ELSE writes' = writes
    /\ results' = results =>
          \/ writes' = writes
          \/ writes' = Append(writes, Write(FALSE, results))

(* C27: under any interleaving of the company workers, a checkpoint is     *)
(* written exactly when the number of completed results reaches a multiple *)
(* of save_every, and each checkpoint holds exactly the results appended   *)
(* so far: no other worker's append comes between a worker's append and    *)
(* its checkpoint write, and successive checkpoints only grow.             *)
C27_CheckpointsAreSnapshots ==
    []C27_Snapshots /\ [][C27_Step]_vars

\* Three companies ran two at a time and finished out of order; the one
\* checkpoint holds the first two results.
C27_Witness ==
    /\ bpc = "written"
    /\ save_every = 2 /\ concurrency = 2
    /\ Len(results) = 3 /\ results[1] # 1
    /\ writes = <<Write(TRUE, SubSeq(results, 1, 2)), Write(FALSE, results)>>

----------------------------------------------------------------------------
(* The adapters' requests in the call history of one company. *)

C26_IsAttempt(c) == c \in {"hunter:search", "hunter:verify", "apollo:post"}

\* The rate limiter's acquire() an attempt's request belongs to.
C26_Slot(c) == IF c = "apollo:post" THEN "apollo:acquire" ELSE "hunter:acquire"

\* The first index of the run of equal entries of cs that ends at i.
C26_RunStart(cs, i) ==
    CHOOSE k \in 1..i :
        /\ \A m \in k..i : cs[m] = cs[i]
        /\ k > 1 => cs[k - 1] # cs[i]

\* Every attempt belongs to a run of at most three attempts of one request
\* that follows the acquire() of its limiter.
C26_Groups ==
    \A i \in DOMAIN calls :
        C26_IsAttempt(calls[i]) =>
            LET k == C26_RunStart(calls, i)
            IN  /\ k > 1
                /\ calls[k - 1] = C26_Slot(calls[i])
                /\ i - k + 1 <= 3

C26_Attempting == ppc \in {"hunter_search", "verify_attempt", "apollo_attempt"}

\* A step that makes an attempt: a success ends the request and surfaces
\* nothing; a failure is retried in silence unless it is the third in a
\* row, which ends the request and reaches the caller's except clause.
C26_Step ==
    (Len(calls') = Len(calls) + 1 /\ C26_IsAttempt(calls'[Len(calls')])) =>
        LET i == Len(calls')
            n == i - C26_RunStart(calls', i) + 1
            err == IF calls'[i] = "apollo:post" THEN "apollo_error"
                   ELSE "hunter_error"
        IN  IF failures' = failures
            THEN ~C26_Attempting' /\ notes' = notes
            ELSE IF n < 3
            THEN ppc' = ppc /\ notes' = notes
            ELSE ~C26_Attempting' /\ notes' = Append(notes, Note(err, NoUrl))

(* C26: each adapter request (Hunter domain search, each per-e-mail Hunter *)
(* verification, Apollo people search) acquires its named rate-limiter     *)
(* slot before its first network attempt, makes at most 3 attempts, stops  *)
(* at the first successful attempt, and surfaces a failure to its caller   *)
(* only after the third consecutive failed attempt.                        *)
C26_AcquireThenRetry ==
    []C26_Groups /\ [][C26_Step]_vars

\* A verification answered at its third attempt, after two that raised,
\* and nothing was surfaced.
C26_Witness ==
    /\ ppc = "done"
    /\ failures = <<Failure("hunter:verify", 1), Failure("hunter:verify", 2)>>
    /\ hunter_verification # <<>>
    /\ Note("hunter_error", NoUrl) \notin Range(notes)

----------------------------------------------------------------------------
(* merge_checkpoint (scraper/io.py), called by main_async on the input     *)
(* table and the table load_checkpoint read.                               *)

\* The float NaN pandas reads from an empty CSV cell.
NaN == "float('nan')"

\* str(v) of a cell
str(v) == IF v = NaN THEN "nan" ELSE v

CompanyNames == {"Acme", "Acme ", "Beta"}
DomainCells == {"", NaN, "example.com"}

\* A row of the input table and a row of the checkpoint table.
InputRow(name) == [company_name |-> name]
CheckpointRow(name, dom) == [company_name |-> name, domain |-> dom]

RowsOf(S) == UNION {[1..n -> S] : n \in 0..MaxRows}

InputTables == RowsOf({InputRow(n) : n \in CompanyNames})

CheckpointTables ==
    { Checkpoint(has, rows) :
        has \in BOOLEAN,
        rows \in RowsOf({CheckpointRow(n, d) :
                             n \in CompanyNames, d \in DomainCells}) }

\* Lines 93-97: the (company_name, domain) pairs of the checkpoint rows
\* that have both attributes.
Processed(chk) ==
    { <<strip(str(r.company_name)), strip(str(r.domain))>> :
        r \in {x \in Range(chk.rows) : chk.has_domain} }

\* Line 100: the key an input row is looked up by.
MergeKey(r) == <<strip(str(r.company_name)), "">>

merge_checkpoint(df, chk) ==
    IF chk.rows = <<>> THEN df
    ELSE SelectSeq(df, LAMBDA r : MergeKey(r) \notin Processed(chk))

\* The call merge_checkpoint(df, chk)
MergeCall ==
    /\ fpc = "merge"
    /\ fn_ret' = merge_checkpoint(fn_df, fn_chk)
    /\ fpc' = "returned"
    /\ UNCHANGED fnArgs
    /\ UNCHANGED <<crawlVars, rlVars, pcVars, batchVars>>

InitMerge ==
    /\ fpc = "merge"
    /\ fn_df \in InputTables
    /\ fn_chk \in CheckpointTables
    /\ fn_html = {}
    /\ fn_domain = <<>>
    /\ fn_url = EmptyString
    /\ fn_ret = <<>>
    /\ CrawlIdle
    /\ RateLimiterIdle
    /\ CompanyIdle
    /\ BatchIdle

NextMerge == MergeCall

SpecMerge == InitMerge /\ [][NextMerge]_vars

\* The company names of the checkpoint table, as the code reads them.
C22_CheckpointNames ==
    {strip(str(r.company_name)) : r \in Range(fn_chk.rows)}

(* C22: merge_checkpoint returns exactly the input rows whose company name *)
(* does not appear in the checkpoint table, whatever domain the checkpoint *)
(* recorded for the company.                                               *)
C22_ExcludesByName ==
    fpc = "returned" =>
        fn_ret = SelectSeq(fn_df, LAMBDA r :
                     strip(str(r.company_name)) \notin C22_CheckpointNames)

============================================================================
